---- MODULE Spec2Model ----
(***************************************************************************)
(* The multi-provider tool-calling loop of the observability assistant:    *)
(* the chat() method of the OpenAI, Llama, Anthropic and Google adapters   *)
(* and of the deterministic fallback adapter, with the backend model, the  *)
(* tool executor and the progress callback as nondeterministic             *)
(* collaborators.                                                          *)
(*                                                                         *)
(* Text is modelled as a tuple of string pieces, so that a formatted       *)
(* message ("Error executing " + tool + ": " + message) keeps its parts.   *)
(***************************************************************************)
EXTENDS Integers, Sequences, FiniteSets, TLC

VARIABLES
    active,         \* the chat() invocations of the scenario
    inst,           \* invocation -> the adapter instance it is called on
    adapter,        \* instance -> the attributes set by __init__
    args,           \* invocation -> the arguments of chat()
    env,            \* invocation -> how the backend behaves for it
    pc,             \* invocation -> position in chat()
    messages,       \* transcript slot -> the local list `messages`
    iteration,      \* invocation -> the local counter `iteration`
    response,       \* invocation -> the local `response` (the last backend answer)
    tool_results,   \* invocation -> the local list `tool_results`
    result,         \* invocation -> what chat() returned (or raised)
    requests,       \* invocation -> backend requests sent so far
    dispatched,     \* invocation -> ids handed to call_tool in this turn
    inflight,       \* invocation -> ids handed to call_tool and not yet back
    failures,       \* invocation -> executor failures so far
    faults,         \* invocation -> the collaborators that have raised
    catalog,        \* invocation -> the tool declarations: times listed, the
                    \* local list of converted tools, what requests carried
    applied         \* the last call of a helper function: its input and output

vars == <<active, inst, adapter, args, env, pc, messages, iteration,
          response, tool_results, result, requests, dispatched, inflight,
          failures, faults, catalog, applied>>

(***************************************************************************)
(* Bounds of the model.                                                    *)
(***************************************************************************)
\* tool calls per response of a freely behaving backend
MaxCalls == 2
\* tool calls per response of the backend that asks for many tools at once
WideCalls == 9
\* iterations in which the backend and the executor behave freely
MaxFreeTurns == 3
\* executor failures within one chat()
MaxToolFailures == 1
\* tool turns, and tool calls per response, of each of two chat() invocations
\* running side by side
MaxConcTurns == 1
MaxConcCalls == 1
\* distinct texts a tool may return
MaxSources == 2
\* pieces of a correlation query after its prefix
MaxQueryTokens == 2
\* pieces of a model name given to create_chatbot
MaxNameParts == 2
\* the largest CPU ratio a query result holds, in hundredths
MaxRatio == 120

(***************************************************************************)
(* Program constants.                                                      *)
(***************************************************************************)
MaxIterationsDefault == 30
MaxIterationsGoogle == 10
HistoryLimit == 10
HistoryKeep == 8
AnthropicHistoryLimit == 8

Invocations == {1, 2}
Instances == {"A", "B"}
LoopVariants == {"openai", "llama", "anthropic", "google"}
Variants == LoopVariants \cup {"deterministic"}
HostedVariants == {"openai", "anthropic", "google"}

\* The k-th tool call of a response asks for the k-th tool of the catalog.
Catalog == <<"execute_promql", "korrel8r_get_correlated", "search_metrics">>
ToolNameAt(k) == Catalog[((k - 1) % Len(Catalog)) + 1]

NoId == <<0, 0>>
BackendErrMsg == "backend unreachable"
ToolErrMsg == "tool timed out"
CallbackErrMsg == "callback failed"
CatalogErrMsg == "catalog unavailable"

(***************************************************************************)
(* The strings chat() returns.                                             *)
(***************************************************************************)
Running == [kind |-> "running", text |-> <<>>, cause |-> "none"]
Returned(kind, text, cause) == [kind |-> kind, text |-> text, cause |-> cause]

AdvisoryText == <<"Analysis incomplete. Please try a more specific question.">>

ProviderName(v) ==
    CASE v = "openai" -> "OpenAI"
      [] v = "llama" -> "LlamaStack"
      [] v = "anthropic" -> "Anthropic"
      [] v = "google" -> "Google Gemini"
      [] OTHER -> "deterministic"

\* The `except Exception as e` at the end of chat().
OuterExceptText(v, msg) == <<"Error during ", ProviderName(v), " tool calling: ", msg>>

\* The handler around send_message in the Google adapter.
GeminiSendExceptText(msg) == <<"Error communicating with Gemini: ", msg>>

BackendErrorText(v, msg) ==
    IF v = "google" THEN GeminiSendExceptText(msg) ELSE OuterExceptText(v, msg)

\* A loop that allows one iteration more (C1 must tell it from the code's).
max_iterations_one_more(v) ==
    IF v = "google" THEN MaxIterationsGoogle + 1 ELSE MaxIterationsDefault + 1
\* `max_iterations = 30` (10 in the Google adapter) with `while iteration < max_iterations`
max_iterations(v) ==
    IF v = "google" THEN MaxIterationsGoogle ELSE MaxIterationsDefault

(***************************************************************************)
(* Transcript entries.                                                     *)
(***************************************************************************)
Msg(role, owner, calls, ref, content, results) ==
    [role |-> role, owner |-> owner, calls |-> calls, ref |-> ref,
     content |-> content, results |-> results]

SystemMsg(c) == Msg("system", c, <<>>, NoId, <<"system prompt">>, <<>>)
UserMsg(c, q) == Msg("user", c, <<>>, NoId, <<q>>, <<>>)
AssistantMsg(c, resp) == Msg("assistant", c, resp.calls, NoId, <<resp.text>>, <<>>)
ToolMsg(c, id, text) == Msg("tool", c, <<>>, id, text, <<>>)
\* Anthropic: one user message holding the tool_result blocks of the turn.
ToolResultsMsg(c, results) == Msg("user", c, <<>>, NoId, <<>>, results)

\* The entry appended to tool_results (function_responses for Google).
\* `args` records the arguments _get_tool_result was called with, `raised`
\* whether call_tool raised for this call.
ResultEntry(c, call, tool_args, text, raised) ==
    [owner |-> c, ref |-> call.id, name |-> call.name, args |-> tool_args,
     content |-> text, raised |-> raised]

InitialMessages(v, c, q) ==
    CASE v \in {"openai", "llama"} -> <<SystemMsg(c), UserMsg(c, q)>>
      [] v = "anthropic" -> <<UserMsg(c, q)>>
      [] OTHER -> <<>>

LastN(s, n) == IF Len(s) <= n THEN s ELSE SubSeq(s, Len(s) - n + 1, Len(s))

\* A trim that keeps the last ten entries (C4 must tell it from the code's).
TrimKeepsLastTen(v, msgs) ==
    IF v \in {"openai", "llama"} /\ Len(msgs) > HistoryLimit
    THEN <<msgs[1]>> \o LastN(msgs, HistoryLimit)
    ELSE msgs
\* A trim that keeps the user's question next to the system prompt (C27 must
\* tell it from the code's).
TrimKeepsQuestion(v, msgs) ==
    IF v \in {"openai", "llama"} /\ Len(msgs) > HistoryLimit
    THEN <<msgs[1], msgs[2]>> \o LastN(msgs, HistoryKeep - 1)
    ELSE IF v = "anthropic" THEN LastN(msgs, AnthropicHistoryLimit)
    ELSE msgs
\* A trim of the Anthropic list that keeps the question and the last seven
\* entries (C28 must tell it from the code's).
TrimAnthropicKeepsQuestion(v, msgs) ==
    IF v \in {"openai", "llama"} /\ Len(msgs) > HistoryLimit
    THEN <<msgs[1]>> \o LastN(msgs, HistoryKeep)
    ELSE IF v = "anthropic" /\ Len(msgs) > AnthropicHistoryLimit
    THEN <<msgs[1]>> \o LastN(msgs, AnthropicHistoryLimit - 1)
    ELSE msgs
\* "Limit conversation history"
Trim(v, msgs) ==
    CASE v \in {"openai", "llama"} ->
            IF Len(msgs) > HistoryLimit
            THEN <<msgs[1]>> \o LastN(msgs, HistoryKeep)
            ELSE msgs
      [] v = "anthropic" ->
            IF Len(msgs) > AnthropicHistoryLimit
            THEN LastN(msgs, AnthropicHistoryLimit)
            ELSE msgs
      [] OTHER -> msgs

RECURSIVE AsToolMsgs(_)
AsToolMsgs(results) ==
    IF results = <<>> THEN <<>>
    ELSE <<ToolMsg(results[1].owner, results[1].ref, results[1].content)>>
            \o AsToolMsgs(Tail(results))

\* "Add tool results to conversation"
Extend(v, c, msgs, results) ==
    CASE v \in {"openai", "llama"} -> msgs \o AsToolMsgs(results)
      [] v = "anthropic" -> Append(msgs, ToolResultsMsg(c, results))
      [] OTHER -> msgs

\* "Add assistant's response to conversation"; the Google SDK keeps the history.
AppendAssistant(v, c, msgs, resp) ==
    IF v = "google" THEN msgs ELSE Append(msgs, AssistantMsg(c, resp))

(***************************************************************************)
(* The backend's responses.                                                *)
(***************************************************************************)
\* The finish reason with which a backend announces tool calls.
ToolSignal(v) == IF v = "anthropic" THEN "tool_use" ELSE "tool_calls"
FinishReasons(v) == {ToolSignal(v), "length"}

\* The texts a backend sends as `tool_call.function.arguments`.
ArgumentTexts ==
    << "{\"namespace\": \"prod\"}", "{\"namespace\": ", "{}", "" >>
\* The k-th tool call of the response of iteration `it` carries this text.
ArgumentsAt(it, k) == ArgumentTexts[((it + k) % Len(ArgumentTexts)) + 1]

EmptyMapping == [key \in {} |-> ""]
\* json.loads on the texts above: the mapping, or JSONDecodeError.
JsonLoads(s) ==
    CASE s = "{\"namespace\": \"prod\"}" ->
            [raised |-> FALSE, value |-> [namespace |-> "prod"]]
      [] s = "{}" -> [raised |-> FALSE, value |-> EmptyMapping]
      [] OTHER -> [raised |-> TRUE, value |-> EmptyMapping]

\* A parse that hands on no mapping for a text that is no JSON (C29 must tell
\* it from the code's).
ParseArgumentsNone(s) ==
    IF JsonLoads(s).raised THEN [unparsed |-> s] ELSE JsonLoads(s).value
\* try: tool_args = json.loads(tool_args_str)
\* except json.JSONDecodeError: tool_args = {}
ParseArguments(s) ==
    IF JsonLoads(s).raised THEN EmptyMapping ELSE JsonLoads(s).value

\* The tool_args handed to _get_tool_result.  The Anthropic and Google SDKs
\* deliver a mapping (content_block.input, func_call.args): the one the
\* call's text denotes.
ToolArgs(v, call) ==
    IF v \in {"openai", "llama"}
    THEN ParseArguments(call.arguments)
    ELSE JsonLoads(call.arguments).value

CallsOf(it, n) ==
    [k \in 1..n |-> [id |-> <<it, k>>, name |-> ToolNameAt(k),
                     arguments |-> ArgumentsAt(it, k)]]

Response(finish, calls, text, valid) ==
    [finish |-> finish, calls |-> calls, text |-> text, valid |-> valid]

NoResponse == Response("none", <<>>, "", TRUE)

\* A test that goes by the finish reason alone (C30 must tell it from the
\* code's, which looks for function_call parts).
IsToolTurnByFinish(v, resp) ==
    IF v \in {"openai", "llama"}
    THEN resp.finish = "tool_calls" /\ resp.calls # <<>>
    ELSE resp.finish = ToolSignal(v)
\* The adapter's test for "the model wants to use tools".
IsToolTurn(v, resp) ==
    CASE v \in {"openai", "llama"} ->
            resp.finish = "tool_calls" /\ resp.calls # <<>>
      [] v = "anthropic" -> resp.finish = "tool_use"
      [] OTHER -> resp.calls # <<>>

\* What the backend may answer to the request of iteration `it`.
Responses(v, e, it) ==
    IF e.mode = "pending"
    THEN {Response(ToolSignal(v), CallsOf(it, e.width), "", TRUE)}
    ELSE {r \in {Response(f, CallsOf(it, n), t, ok) :
                    f \in FinishReasons(v), n \in 0..e.width,
                    t \in {"", "answer"},
                    ok \in (IF v = "google" THEN BOOLEAN ELSE {TRUE})} :
            /\ (r.calls # <<>> /\ r.finish = ToolSignal(v)) => r.text = ""
            /\ (r.calls # <<>> \/ r.finish = ToolSignal(v)) => it <= e.turns
            /\ ~r.valid => (r.calls = <<>> /\ r.text = "")}

BackendOutcomes(v, e, it) ==
    [raised : {FALSE}, resp : Responses(v, e, it)]
        \cup (IF e.mode = "pending" THEN {}
              ELSE {[raised |-> TRUE, resp |-> Response("length", <<>>, "", TRUE)]})

CallbackOutcomes(cb) == IF cb = "given" THEN {"ok", "raise"} ELSE {"ok"}

(***************************************************************************)
(* The tool declarations: _get_mcp_tools and the conversion to the         *)
(* backend's format.                                                       *)
(***************************************************************************)
ToolFormat(v) ==
    CASE v \in {"openai", "llama"} -> "function"
      [] v = "anthropic" -> "input_schema"
      [] OTHER -> "FunctionDeclaration"

\* _convert_tools_to_openai_format and its likes: one declaration per tool, in
\* the order of the listing.
ConvertTools(v, listing) ==
    [k \in DOMAIN listing |-> [format |-> ToolFormat(v), name |-> listing[k]]]

NoCatalog == [listed |-> 0, tools |-> <<>>, sent |-> {}]

\* A request that carries the declarations only the first time (C11 must tell
\* it from the code's).
RequestToolsFirstOnly(c) == IF requests[c] = 0 THEN catalog[c].tools ELSE <<>>
\* `tools=openai_tools`: the declarations a backend request carries.
RequestTools(c) == catalog[c].tools

\* A helper is about to be called with `in`; once it has returned, `out` holds
\* what it returned.
NoCall == [fn |-> "none", in |-> <<>>, done |-> FALSE, out |-> <<>>]
Calling(fn, in) == [fn |-> fn, in |-> in, done |-> FALSE, out |-> <<>>]

(***************************************************************************)
(* _route_tool_call_to_mcp and _get_tool_result.                           *)
(***************************************************************************)
ToolErrorText(name, msg) == <<"Error executing ", name, ": ", msg>>

\* outcome is "ok" or "raise": what call_tool did.
RouteToolCall(name, outcome) ==
    IF outcome = "raise" THEN ToolErrorText(name, ToolErrMsg)
    ELSE <<"result of ", name>>

RECURSIVE Reversed(_)
Reversed(s) == IF s = <<>> THEN <<>> ELSE Append(Reversed(Tail(s)), Head(s))
\* A for loop that takes the calls last to first (C6 must tell it from the code's).
ToolOrderReversed(calls) == Reversed(calls)
\* The order in which the for loop takes the response's tool calls.
ToolOrder(calls) == calls

\* One list shared by all invocations (C10 must tell it from the code's).
TranscriptShared(c) == 1
\* The transcript slot a chat() invocation reads and writes: its own local list.
TranscriptOf(c) == c

(***************************************************************************)
(* Strings as sequences of characters, and the str methods the helpers use.*)
(***************************************************************************)
Range(s) == {s[i] : i \in DOMAIN s}
UpperCase ==
    <<"A", "B", "C", "D", "E", "F", "G", "H", "I", "J", "K", "L", "M", "N",
      "O", "P", "Q", "R", "S", "T", "U", "V", "W", "X", "Y", "Z">>
LowerCase ==
    <<"a", "b", "c", "d", "e", "f", "g", "h", "i", "j", "k", "l", "m", "n",
      "o", "p", "q", "r", "s", "t", "u", "v", "w", "x", "y", "z">>
Digits == {"0", "1", "2", "3", "4", "5", "6", "7", "8", "9"}

\* str.lower()
LowerChar(ch) ==
    IF \E k \in DOMAIN UpperCase : UpperCase[k] = ch
    THEN LowerCase[CHOOSE k \in DOMAIN UpperCase : UpperCase[k] = ch]
    ELSE ch
Lower(s) == [k \in DOMAIN s |-> LowerChar(s[k])]

\* \s of the regular expressions and the whitespace of str.strip()
IsSpace(ch) == ch \in {" ", "\n", "\t"}
\* \w of the regular expressions
IsWord(ch) == ch \in Range(UpperCase) \cup Range(LowerCase) \cup Digits \cup {"_"}
\* [A-Za-z0-9_\.]
IsKeyChar(ch) == IsWord(ch) \/ ch = "."

From(s, k) == SubSeq(s, k, Len(s))
StartsWith(s, p) == Len(s) >= Len(p) /\ SubSeq(s, 1, Len(p)) = p
\* `p in s`
Contains(s, p) == \E k \in 1..(Len(s) - Len(p) + 1) : SubSeq(s, k, k + Len(p) - 1) = p
\* str.find, counted from 1; 0 when absent
IndexOf(s, ch) ==
    IF ch \in Range(s) THEN CHOOSE k \in DOMAIN s : s[k] = ch /\ \A j \in 1..(k - 1) : s[j] # ch
    ELSE 0

\* str.strip()
RECURSIVE StripLeft(_)
StripLeft(s) == IF s # <<>> /\ IsSpace(s[1]) THEN StripLeft(Tail(s)) ELSE s
RECURSIVE StripRight(_)
StripRight(s) ==
    IF s # <<>> /\ IsSpace(s[Len(s)]) THEN StripRight(SubSeq(s, 1, Len(s) - 1)) ELSE s
\* A strip of the left end only (C14 must tell it from the code's).
StripLeftOnly(s) == StripLeft(s)
Strip(s) == StripRight(StripLeft(s))

\* str.replace(old, new): every occurrence, left to right, without overlap
RECURSIVE ReplaceAll(_, _, _)
ReplaceAll(s, old, new) ==
    IF s = <<>> THEN <<>>
    ELSE IF StartsWith(s, old) THEN new \o ReplaceAll(From(s, Len(old) + 1), old, new)
    ELSE <<s[1]>> \o ReplaceAll(Tail(s), old, new)

\* str.split(":", 2)[2]: what follows the second colon
AfterSecondColon(s) ==
    LET i == IndexOf(s, ":")
        rest == From(s, i + 1)
    IN  From(rest, IndexOf(rest, ":") + 1)

(***************************************************************************)
(* Initial states.                                                         *)
(***************************************************************************)
\* "pending": every response asks for `width` tools.  "free": any response of
\* up to `width` tool calls, the ones with tool calls within the first `turns`
\* iterations.  The executor may
\* fail within the first `turns` iterations.
EnvsOf(turns) ==
    [mode : {"pending"}, width : (1..MaxCalls) \cup {WideCalls}, turns : {turns}]
        \cup [mode : {"free"}, width : {MaxCalls}, turns : {turns}]
Envs == EnvsOf(MaxFreeTurns)

Questions ==
    <<"Any alerts firing?",
      "What is the memory usage?",
      "How is CPU utilization?",
      "What is the disk usage?",
      "Show RAM and CPU">>
\* user_question, character by character
QuestionText(q) ==
    CASE q = "Any alerts firing?" ->
            <<"A", "n", "y", " ", "a", "l", "e", "r", "t", "s", " ", "f", "i", "r", "i", "n", "g", "?">>
      [] q = "What is the memory usage?" ->
            <<"W", "h", "a", "t", " ", "i", "s", " ", "t", "h", "e", " ", "m", "e", "m", "o", "r", "y", " ", "u", "s", "a", "g", "e", "?">>
      [] q = "How is CPU utilization?" ->
            <<"H", "o", "w", " ", "i", "s", " ", "C", "P", "U", " ", "u", "t", "i", "l", "i", "z", "a", "t", "i", "o", "n", "?">>
      [] q = "What is the disk usage?" ->
            <<"W", "h", "a", "t", " ", "i", "s", " ", "t", "h", "e", " ", "d", "i", "s", "k", " ", "u", "s", "a", "g", "e", "?">>
      [] q = "Show RAM and CPU" ->
            <<"S", "h", "o", "w", " ", "R", "A", "M", " ", "a", "n", "d", " ", "C", "P", "U">>

\* The loop-driven adapters pass the question on unread.
QuestionsFor(v) ==
    IF v = "deterministic" THEN {Questions[k] : k \in 1..Len(Questions)}
    ELSE {Questions[1]}

\* self.client (self.configured in the Google adapter) after __init__: the SDK
\* import succeeded and, in the OpenAI adapter, an API key is there.
HasClient(v, sdk, key) == sdk /\ (v = "openai" => key)

\* The adapter __init__ leaves: sdk is "the SDK is installed", key is "an API
\* key was passed or is in the environment".
Constructed(v, sdk, key) ==
    [variant |-> v, sdk |-> sdk, key |-> key, client |-> HasClient(v, sdk, key)]
Adapters == {Constructed(v, sdk, key) : v \in Variants, sdk \in BOOLEAN, key \in BOOLEAN}

Idle ==
    /\ pc = [c \in Invocations |-> "idle"]
    /\ messages = [c \in Invocations |-> <<>>]
    /\ iteration = [c \in Invocations |-> 0]
    /\ response = [c \in Invocations |-> NoResponse]
    /\ tool_results = [c \in Invocations |-> <<>>]
    /\ result = [c \in Invocations |-> Running]
    /\ requests = [c \in Invocations |-> 0]
    /\ dispatched = [c \in Invocations |-> <<>>]
    /\ inflight = [c \in Invocations |-> {}]
    /\ failures = [c \in Invocations |-> 0]
    /\ faults = [c \in Invocations |-> {}]
    /\ catalog = [c \in Invocations |-> NoCatalog]

\* One chat() on one adapter.
Init ==
    /\ active = {1}
    /\ inst = [c \in Invocations |-> "A"]
    /\ \E a \in Adapters : adapter = [i \in Instances |-> a]
    /\ \E cb \in {"none", "given"}, q \in QuestionsFor(adapter["A"].variant) :
          args = [c \in Invocations |-> [question |-> q, callback |-> cb]]
    /\ \E e \in Envs : env = [c \in Invocations |-> e]
    /\ Idle
    /\ applied = NoCall

VariantOf(c) == adapter[inst[c]].variant

(***************************************************************************)
(* chat() of the loop-driven adapters.                                     *)
(***************************************************************************)
\* return <res> from chat()
Return(c, res) ==
    /\ pc' = [pc EXCEPT ![c] = "done"]
    /\ result' = [result EXCEPT ![c] = res]
    /\ UNCHANGED faults

\* a collaborator raised
Fault(c, who) == faults' = [faults EXCEPT ![c] = @ \cup {who}]

\* an exception reaches a handler (or none), which ends chat() with <res>
ReturnAfter(c, who, res) ==
    /\ pc' = [pc EXCEPT ![c] = "done"]
    /\ result' = [result EXCEPT ![c] = res]
    /\ Fault(c, who)

\* The entry of chat() up to the while loop.
StartChat(c) ==
    /\ c \in active
    /\ pc[c] = "idle"
    /\ VariantOf(c) \in LoopVariants
    /\ LET v == VariantOf(c)
           a == adapter[inst[c]]
       IN  IF ~a.client
           THEN /\ Return(c, Returned("config", <<"Error: SDK not installed">>, "sdk"))
                /\ UNCHANGED <<messages, catalog>>
           ELSE IF v \in HostedVariants /\ ~a.key
           THEN /\ Return(c, Returned("config",
                        <<"API key required for ", ProviderName(v), " model">>, "api_key"))
                /\ UNCHANGED <<messages, catalog>>
           ELSE \E listed \in (IF v \in {"openai", "llama"}
                               THEN {"ok", "raise"} ELSE {"ok"}) :
                  IF listed = "raise"
                  THEN /\ ReturnAfter(c, "catalog", Returned("error",
                                OuterExceptText(v, CatalogErrMsg), "catalog"))
                       /\ messages' = [messages EXCEPT ![TranscriptOf(c)] =
                                InitialMessages(v, c, args[c].question)]
                       /\ catalog' = [catalog EXCEPT ![c].listed = @ + 1]
                  ELSE /\ pc' = [pc EXCEPT ![c] = "loop"]
                       /\ messages' = [messages EXCEPT ![TranscriptOf(c)] =
                                InitialMessages(v, c, args[c].question)]
                       /\ catalog' = [catalog EXCEPT ![c].listed = @ + 1,
                                                     ![c].tools = ConvertTools(v, Catalog)]
                       /\ UNCHANGED <<result, faults>>
    /\ iteration' = [iteration EXCEPT ![c] = 0]
    /\ UNCHANGED <<applied, active, inst, adapter, args, env, response, tool_results,
                   requests, dispatched, inflight, failures>>

\* `while iteration < max_iterations`, the increment and the "Thinking..." update.
BeginIteration(c) ==
    /\ c \in active
    /\ pc[c] = "loop"
    /\ iteration[c] < max_iterations(VariantOf(c))
    /\ iteration' = [iteration EXCEPT ![c] = @ + 1]
    /\ \E cb \in CallbackOutcomes(args[c].callback) :
          IF cb = "raise"
          THEN ReturnAfter(c, "callback", Returned("error",
                    OuterExceptText(VariantOf(c), CallbackErrMsg), "callback"))
          ELSE /\ pc' = [pc EXCEPT ![c] = "request"]
               /\ UNCHANGED <<result, faults>>
    /\ UNCHANGED <<applied, catalog, active, inst, adapter, args, env, messages, response,
                   tool_results, requests, dispatched, inflight, failures>>

\* The loop condition fails: "Hit max iterations".
ExhaustIterations(c) ==
    /\ c \in active
    /\ pc[c] = "loop"
    /\ iteration[c] >= max_iterations(VariantOf(c))
    /\ Return(c, Returned("incomplete", AdvisoryText, "max_iterations"))
    /\ UNCHANGED <<applied, catalog, active, inst, adapter, args, env, messages, iteration,
                   response, tool_results, requests, dispatched, inflight,
                   failures>>

\* The tool calls of the current response, in the order the for loop takes them.
CurrentCalls(c) == ToolOrder(response[c].calls)

\* The tool call the for loop is at.
CurrentCall(c) == CurrentCalls(c)[Len(tool_results[c]) + 1]

\* What the adapter returns for a response that is no tool turn.
FinalResult(v, resp) ==
    IF v = "google" /\ resp.text = ""
    THEN Returned("error",
            <<"Error: Model completed but returned no text response">>, "no_text")
    ELSE Returned("final", <<resp.text>>, "model")

\* The handler that ends chat() when the backend request raises.
\* A handler that goes on with the loop (C8 must tell it from the code's).
OnBackendErrorRetries(v, msg) == [pc |-> "loop", result |-> Running]
OnBackendError(v, msg) ==
    [pc |-> "done", result |-> Returned("error", BackendErrorText(v, msg), "backend")]

\* One backend request and the handling of its response, up to the first tool
\* call of the turn or to the return of the final answer.
BackendRequest(c) ==
    /\ c \in active
    /\ pc[c] = "request"
    /\ LET v == VariantOf(c)
           t == TranscriptOf(c)
       IN  IF v = "google" /\ iteration[c] > 1 /\ tool_results[c] = <<>>
           THEN \* "No function responses to send but not first iteration": break
                /\ Return(c, Returned("incomplete", AdvisoryText, "no_function_responses"))
                /\ UNCHANGED <<messages, response, tool_results, requests, dispatched,
                               catalog>>
           ELSE
           /\ requests' = [requests EXCEPT ![c] = @ + 1]
           /\ catalog' = [catalog EXCEPT ![c].sent = @ \cup {RequestTools(c)}]
           /\ \E out \in BackendOutcomes(v, env[c], iteration[c]) :
                IF out.raised
                THEN /\ pc' = [pc EXCEPT ![c] = OnBackendError(v, BackendErrMsg).pc]
                     /\ result' = [result EXCEPT ![c] =
                                        OnBackendError(v, BackendErrMsg).result]
                     /\ Fault(c, "backend")
                     /\ UNCHANGED <<messages, response, tool_results, dispatched>>
                ELSE IF ~out.resp.valid
                THEN /\ Return(c, Returned("error",
                            <<"Error: No response candidates from Google Gemini">>,
                            "invalid_response"))
                     /\ response' = [response EXCEPT ![c] = out.resp]
                     /\ UNCHANGED <<messages, tool_results, dispatched>>
                ELSE IF IsToolTurn(v, out.resp)
                THEN /\ response' = [response EXCEPT ![c] = out.resp]
                     /\ tool_results' = [tool_results EXCEPT ![c] = <<>>]
                     /\ dispatched' = [dispatched EXCEPT ![c] = <<>>]
                     /\ UNCHANGED <<result, faults>>
                     /\ IF out.resp.calls = <<>>
                        THEN \* the for loop has nothing to do
                             /\ messages' = [messages EXCEPT ![t] =
                                    Trim(v, Extend(v, c,
                                        AppendAssistant(v, c, messages[t], out.resp), <<>>))]
                             /\ pc' = [pc EXCEPT ![c] = "loop"]
                        ELSE /\ messages' = [messages EXCEPT ![t] =
                                    AppendAssistant(v, c, messages[t], out.resp)]
                             /\ pc' = [pc EXCEPT ![c] = "tool"]
                ELSE /\ response' = [response EXCEPT ![c] = out.resp]
                     /\ messages' = [messages EXCEPT ![t] =
                            AppendAssistant(v, c, messages[t], out.resp)]
                     /\ Return(c, FinalResult(v, out.resp))
                     /\ UNCHANGED <<tool_results, dispatched>>
    /\ UNCHANGED <<applied, active, inst, adapter, args, env, iteration, inflight, failures>>

\* The "Using tool" update and the call of _get_tool_result for the next tool call.
ToolDispatch(c) ==
    /\ c \in active
    /\ pc[c] = "tool"
    /\ \E cb \in CallbackOutcomes(args[c].callback) :
          IF cb = "raise"
          THEN /\ ReturnAfter(c, "callback", Returned("error",
                        OuterExceptText(VariantOf(c), CallbackErrMsg), "callback"))
               /\ UNCHANGED <<dispatched, inflight>>
          ELSE /\ dispatched' = [dispatched EXCEPT ![c] = Append(@, CurrentCall(c).id)]
               /\ inflight' = [inflight EXCEPT ![c] = @ \cup {CurrentCall(c).id}]
               /\ pc' = [pc EXCEPT ![c] = "in_tool"]
               /\ UNCHANGED <<result, faults>>
    /\ UNCHANGED <<applied, catalog, active, inst, adapter, args, env, messages, iteration, response,
                   tool_results, requests, failures>>

\* What call_tool may do: it fails at most MaxToolFailures times, within the
\* turns in which the collaborators behave freely.
ExecutorOutcomes(c) ==
    IF failures[c] < MaxToolFailures /\ iteration[c] <= env[c].turns
    THEN {"ok", "raise"} ELSE {"ok"}

\* call_tool comes back (or raises); the result joins tool_results, and after
\* the last call of the turn the results join the transcript, which is trimmed.
ToolReturn(c) ==
    /\ c \in active
    /\ pc[c] = "in_tool"
    /\ LET v == VariantOf(c)
           t == TranscriptOf(c)
           call == CurrentCall(c)
       IN  \E o \in ExecutorOutcomes(c) :
             LET results == Append(tool_results[c],
                                ResultEntry(c, call, ToolArgs(v, call),
                                            RouteToolCall(call.name, o),
                                            o = "raise"))
             IN  /\ tool_results' = [tool_results EXCEPT ![c] = results]
                 /\ failures' = [failures EXCEPT ![c] = IF o = "raise" THEN @ + 1 ELSE @]
                 /\ faults' = [faults EXCEPT ![c] =
                        IF o = "raise" THEN @ \cup {"executor"} ELSE @]
                 /\ inflight' = [inflight EXCEPT ![c] = @ \ {call.id}]
                 /\ IF Len(results) = Len(CurrentCalls(c))
                    THEN /\ messages' = [messages EXCEPT ![t] =
                                Trim(v, Extend(v, c, messages[t], results))]
                         /\ pc' = [pc EXCEPT ![c] = "loop"]
                    ELSE /\ pc' = [pc EXCEPT ![c] = "tool"]
                         /\ UNCHANGED messages
    /\ UNCHANGED <<applied, catalog, active, inst, adapter, args, env, iteration, response, result,
                   requests, dispatched>>

(***************************************************************************)
(* chat() of the deterministic fallback adapter.                           *)
(***************************************************************************)
\* The terms `term in question_lower` finds in each question of the model.
MemoryTerms ==
    {<<"m", "e", "m", "o", "r", "y">>, <<"m", "e", "m">>, <<"r", "a", "m">>}
CpuTerms ==
    {<<"c", "p", "u">>,
     <<"u", "s", "a", "g", "e">>,
     <<"u", "t", "i", "l", "i", "z", "a", "t", "i", "o", "n">>}
\* term in question_lower
TermsIn(q) == {t \in MemoryTerms \cup CpuTerms : Contains(Lower(QuestionText(q)), t)}

QueryType(q) ==
    IF TermsIn(q) \cap MemoryTerms # {} THEN "memory"
    ELSE IF TermsIn(q) \cap CpuTerms # {} THEN "cpu"
    ELSE "none"

CannedQuery(qt) ==
    IF qt = "memory"
    THEN "sum(container_memory_usage_bytes{}) / 1024 / 1024 / 1024"
    ELSE "cluster:container_cpu_usage:ratio"

Raised(msg, cause) == Returned("raised", <<msg>>, cause)

\* The "Analyzing your question" update, outside any try.
DetAnalyze(c) ==
    /\ c \in active
    /\ pc[c] = "idle"
    /\ VariantOf(c) = "deterministic"
    /\ \E cb \in CallbackOutcomes(args[c].callback) :
          IF cb = "raise"
          THEN ReturnAfter(c, "callback", Raised(CallbackErrMsg, "callback"))
          ELSE /\ pc' = [pc EXCEPT ![c] = "det_query"]
               /\ UNCHANGED <<result, faults>>
    /\ UNCHANGED <<applied, catalog, active, inst, adapter, args, env, messages, iteration, response,
                   tool_results, requests, dispatched, inflight, failures>>

\* The keyword match and the one canned query.
DetQuery(c) ==
    /\ c \in active
    /\ pc[c] = "det_query"
    /\ LET qt == QueryType(args[c].question)
           call == [id |-> <<1, 1>>, name |-> "execute_promql"]
       IN  IF qt = "none"
           THEN /\ Return(c, Returned("guidance",
                        <<"I understand you're asking about: ", args[c].question>>, "none"))
                /\ UNCHANGED <<tool_results, dispatched, failures>>
           ELSE \E cb \in CallbackOutcomes(args[c].callback) :
                  IF cb = "raise"
                  THEN /\ ReturnAfter(c, "callback", Returned("error",
                                <<"Error analyzing ", qt, " metrics: ", CallbackErrMsg>>,
                                "callback"))
                       /\ UNCHANGED <<tool_results, dispatched, failures>>
                  ELSE \E o \in ExecutorOutcomes(c) :
                         /\ tool_results' = [tool_results EXCEPT ![c] =
                                <<[owner |-> c, ref |-> call.id, name |-> call.name,
                                   query |-> CannedQuery(qt),
                                   content |-> RouteToolCall(call.name, o),
                                   raised |-> o = "raise"]>>]
                         /\ dispatched' = [dispatched EXCEPT ![c] = Append(@, call.id)]
                         /\ failures' = [failures EXCEPT ![c] =
                                IF o = "raise" THEN @ + 1 ELSE @]
                         /\ pc' = [pc EXCEPT ![c] = "det_format"]
                         /\ faults' = [faults EXCEPT ![c] =
                                IF o = "raise" THEN @ \cup {"executor"} ELSE @]
                         /\ UNCHANGED result
    /\ UNCHANGED <<applied, catalog, active, inst, adapter, args, env, messages, iteration, response,
                   requests, inflight>>

\* The "Formatting response" update, outside any try, and the formatting.
DetFormat(c) ==
    /\ c \in active
    /\ pc[c] = "det_format"
    /\ \E cb \in CallbackOutcomes(args[c].callback) :
          IF cb = "raise"
          THEN ReturnAfter(c, "callback", Raised(CallbackErrMsg, "callback"))
          ELSE Return(c, Returned("final",
                    <<"formatted ", QueryType(args[c].question), " response">>, "formatter"))
    /\ UNCHANGED <<applied, catalog, active, inst, adapter, args, env, messages, iteration, response,
                   tool_results, requests, dispatched, inflight, failures>>

(***************************************************************************)
(* The specification of one chat().                                        *)
(***************************************************************************)
Next ==
    \E c \in Invocations :
        \/ StartChat(c)
        \/ BeginIteration(c)
        \/ ExhaustIterations(c)
        \/ BackendRequest(c)
        \/ ToolDispatch(c)
        \/ ToolReturn(c)
        \/ DetAnalyze(c)
        \/ DetQuery(c)
        \/ DetFormat(c)

Spec == Init /\ [][Next]_vars

(***************************************************************************)
(* Properties of one chat().                                               *)
(***************************************************************************)
Ids(calls) == [k \in DOMAIN calls |-> calls[k].id]
Refs(results) == [k \in DOMAIN results |-> results[k].ref]
IsLoop(c) == c \in active /\ VariantOf(c) \in LoopVariants
IsOpenAILike(c) == c \in active /\ VariantOf(c) \in {"openai", "llama"}

\* chat() gave up before or outside the backend conversation: the adapter is not
\* configured, the catalog could not be listed, or the progress callback raised.
GaveUp(c) ==
    \/ result[c].kind = "config"
    \/ faults[c] \cap {"catalog", "callback"} # {}

\* C1: with a backend that asks for tools on every response, chat() sends
\* exactly max_iterations requests (30; 10 for Google), never one more, and
\* returns the fixed advisory message.
C1_LoopTermination ==
    \A c \in Invocations : IsLoop(c) =>
        LET cap == IF VariantOf(c) = "google" THEN 10 ELSE 30
        IN  /\ requests[c] <= cap
            /\ (env[c].mode = "pending" /\ pc[c] = "done" /\ ~GaveUp(c)) =>
                  /\ requests[c] = cap
                  /\ result[c].kind = "incomplete"
                  /\ result[c].text =
                        <<"Analysis incomplete. Please try a more specific question.">>

C1_Witness ==
    /\ VariantOf(1) = "openai" /\ env[1].mode = "pending"
    /\ pc[1] = "done" /\ requests[1] = 30 /\ result[1].kind = "incomplete"

\* C2: chat() always returns a string; no exception of the backend, the tool
\* executor or the progress callback reaches the caller.
C2_NeverRaises ==
    \A c \in Invocations : result[c].kind # "raised"

\* A tool-result turn at position i refers to a tool call of an assistant turn
\* before it.
Answered(msgs, i) ==
    \E j \in 1..(i - 1) :
        /\ msgs[j].role = "assistant"
        /\ msgs[i].ref \in Range(Ids(msgs[j].calls))

\* C3: at every backend request of the OpenAI/Llama loop, every tool-result
\* turn of the transcript carries the id of a tool call of an earlier assistant
\* turn of the same transcript.
C3_ToolResultsAnswerEarlierCalls ==
    \A c \in Invocations : (IsOpenAILike(c) /\ pc[c] = "request") =>
        \A i \in DOMAIN messages[c] :
            messages[c][i].role = "tool" => Answered(messages[c], i)

\* The results of the turn as tool-result turns, as the claim words them.
RECURSIVE ToolTurns(_, _)
ToolTurns(c, results) ==
    IF results = <<>> THEN <<>>
    ELSE <<[role |-> "tool", owner |-> c, calls |-> <<>>, ref |-> results[1].ref,
            content |-> results[1].content, results |-> <<>>]>>
            \o ToolTurns(c, Tail(results))

C4_CapAndSystemFirst ==
    \A c \in Invocations : (IsOpenAILike(c) /\ pc[c] = "loop") =>
        /\ Len(messages[c]) <= 10
        /\ messages[c][1].role = "system"
        /\ messages[c][1] = SystemMsg(c)

C4_TrimStep ==
    \A c \in Invocations :
        (IsOpenAILike(c) /\ pc[c] = "in_tool" /\ pc'[c] = "loop") =>
            LET full == messages[c] \o ToolTurns(c, tool_results'[c])
            IN  messages'[c] =
                    IF Len(full) > 10
                    THEN <<full[1]>> \o SubSeq(full, Len(full) - 7, Len(full))
                    ELSE full

\* C4: after every completed tool turn of the OpenAI/Llama loop the transcript
\* has at most 10 entries and starts with the system prompt; a transcript
\* longer than 10 becomes entry 0 followed by its last 8 entries, and a shorter
\* one is left as it is.
C4_TranscriptDiscipline == [](C4_CapAndSystemFirst) /\ [][C4_TrimStep]_vars

\* A trim has happened: the user's question is no longer the second entry.
C4_Witness ==
    /\ IsOpenAILike(1) /\ pc[1] = "loop" /\ iteration[1] >= 3
    /\ Len(messages[1]) = 9 /\ messages[1][1] = SystemMsg(1)
    /\ messages[1][2].role # "user"

\* The results of the turn are the last entries of the transcript (as far as the
\* trim keeps them); Google sends them as function_responses.
ResultsAppended(c) ==
    CASE VariantOf(c) \in {"openai", "llama"} ->
            LET n == IF Len(tool_results[c]) < 8 THEN Len(tool_results[c]) ELSE 8
            IN  LastN(messages[c], n) = LastN(ToolTurns(c, tool_results[c]), n)
      [] VariantOf(c) = "anthropic" ->
            /\ messages[c][Len(messages[c])].role = "user"
            /\ messages[c][Len(messages[c])].results = tool_results[c]
      [] OTHER -> TRUE

\* C5: a final answer comes only from a response without tool calls; the tool
\* calls of a response are all executed before the next request; no tool call
\* is in progress once chat() has returned.
C5_FinalOnlyWithoutToolCalls ==
    \A c \in Invocations : IsLoop(c) =>
        /\ (pc[c] = "done" /\ result[c].kind = "final") => response[c].calls = <<>>
        /\ (pc[c] = "request" /\ iteration[c] > 1) =>
                Refs(tool_results[c]) = Ids(response[c].calls)
        /\ pc[c] = "done" => inflight[c] = {}

InTurn(c) == pc[c] \in {"tool", "in_tool", "loop", "request"}

\* C6: the tool calls of a turn go to the executor one at a time in the order
\* of the response, call i+1 after call i has returned; the results are kept in
\* that order, each under the id of its call, one per call, and are appended to
\* the transcript in that order.
C6_SequentialInOrder ==
    \A c \in Invocations : (IsLoop(c) /\ InTurn(c)) =>
        /\ Cardinality(inflight[c]) <= 1
        /\ Len(dispatched[c]) <= Len(response[c].calls)
        /\ dispatched[c] = SubSeq(Ids(response[c].calls), 1, Len(dispatched[c]))
        /\ Len(dispatched[c]) =
                Len(tool_results[c]) + (IF pc[c] = "in_tool" THEN 1 ELSE 0)
        /\ inflight[c] =
                (IF pc[c] = "in_tool" THEN {dispatched[c][Len(dispatched[c])]} ELSE {})
        /\ Refs(tool_results[c]) = SubSeq(Ids(response[c].calls), 1, Len(tool_results[c]))
        /\ pc[c] \in {"loop", "request"} =>
                /\ Len(tool_results[c]) = Len(response[c].calls)
                /\ (iteration[c] >= 1 /\ pc[c] = "loop") => ResultsAppended(c)

C6_Witness ==
    /\ IsLoop(1) /\ pc[1] = "in_tool" /\ Len(response[1].calls) = 2
    /\ Len(dispatched[1]) = 2 /\ Len(tool_results[1]) = 1

IsErrorText(text) == Len(text) >= 1 /\ text[1] = "Error executing "

\* The next request carries the result: a tool turn of the transcript, a
\* tool_result block of a user message, or (Google) a function response.
InPayload(c, e) ==
    CASE VariantOf(c) \in {"openai", "llama"} ->
            \E i \in DOMAIN messages[c] :
                /\ messages[c][i].role = "tool"
                /\ messages[c][i].ref = e.ref
                /\ messages[c][i].content = e.content
      [] VariantOf(c) = "anthropic" ->
            \E i \in DOMAIN messages[c] : e \in Range(messages[c][i].results)
      [] OTHER -> e \in Range(tool_results[c])

C7_ErrorResults ==
    \A c \in Invocations : (IsLoop(c) /\ InTurn(c)) =>
        /\ \A k \in DOMAIN tool_results[c] :
              LET e == tool_results[c][k]
              IN  /\ e.name = response[c].calls[k].name
                  /\ e.raised => e.content = <<"Error executing ", e.name, ": ", ToolErrMsg>>
                  /\ ~e.raised => ~IsErrorText(e.content)
        /\ \A i, j \in DOMAIN dispatched[c] : dispatched[c][i] = dispatched[c][j] => i = j
        /\ pc[c] \in {"loop", "request"} => Len(dispatched[c]) = Len(response[c].calls)
        /\ pc[c] \in {"loop", "request"} => Len(tool_results[c]) = Len(response[c].calls)

\* C7: a raising call_tool becomes the error text of its call, no
\* call is repeated or skipped, and the next backend request has every error
\* text of the turn in its transcript.
C7_ErrorTextReachesBackend ==
    /\ C7_ErrorResults
    /\ \A c \in Invocations : (IsLoop(c) /\ pc[c] = "request" /\ iteration[c] > 1) =>
          \A k \in DOMAIN tool_results[c] :
              tool_results[c][k].raised => InPayload(c, tool_results[c][k])

C8_States ==
    \A c \in Invocations : (IsLoop(c) /\ "backend" \in faults[c]) =>
        /\ pc[c] = "done"
        /\ result[c].kind = "error"
        /\ BackendErrMsg \in Range(result[c].text)
        /\ inflight[c] = {}

C8_Steps ==
    \A c \in Invocations : (IsLoop(c) /\ "backend" \in faults[c]) =>
        /\ requests'[c] = requests[c]
        /\ dispatched'[c] = dispatched[c]
        /\ result'[c] = result[c]

\* C8: once a backend request has raised, chat() sends no further request,
\* executes no further tool call and returns one error string that holds the
\* failure's message.
C8_BackendFailureShortCircuits == [](C8_States) /\ [][C8_Steps]_vars

C8_Witness ==
    /\ IsLoop(1) /\ "backend" \in faults[1] /\ pc[1] = "done"
    /\ iteration[1] = 2 /\ requests[1] = 2 /\ tool_results[1] # <<>>

\* C9: in the loop-driven adapters a raising progress callback ("Thinking" or
\* "Using tool" update) does not abort the loop: the iteration goes on to its
\* backend request or tool execution, and what chat() returns is never the
\* outcome of the callback's exception.
C9_CallbackFailureIsHarmless ==
    \A c \in Invocations : (IsLoop(c) /\ "callback" \in faults[c]) =>
        /\ pc[c] = "done" => result[c].cause # "callback"
        /\ requests[c] >= 1

(***************************************************************************)
(* Two chat() invocations: on two adapter instances, or both on the same   *)
(* instance (any interleaving, one after the other included).              *)
(***************************************************************************)
InitConc ==
    /\ active = Invocations
    /\ \E i \in {"A", "B"} : inst = [c \in Invocations |-> IF c = 1 THEN "A" ELSE i]
    /\ \E v \in LoopVariants :
          adapter = [i \in Instances |-> Constructed(v, TRUE, TRUE)]
    /\ args = [c \in Invocations |-> [question |-> Questions[c], callback |-> "none"]]
    /\ env = [c \in Invocations |->
                [mode |-> "free", width |-> MaxConcCalls, turns |-> MaxConcTurns]]
    /\ Idle
    /\ applied = NoCall

\* With at most MaxConcTurns tool turns the iteration cap is out of reach.
NextConc ==
    \E c \in Invocations :
        \/ StartChat(c)
        \/ BeginIteration(c)
        \/ BackendRequest(c)
        \/ ToolDispatch(c)
        \/ ToolReturn(c)

SpecConc == InitConc /\ [][NextConc]_vars

FirstTranscript(c) ==
    CASE VariantOf(c) \in {"openai", "llama"} ->
            /\ Len(messages[c]) = 2
            /\ messages[c][1].role = "system"
            /\ messages[c][2].role = "user"
            /\ messages[c][2].content = <<args[c].question>>
      [] VariantOf(c) = "anthropic" ->
            /\ Len(messages[c]) = 1
            /\ messages[c][1].role = "user"
            /\ messages[c][1].content = <<args[c].question>>
      [] OTHER -> messages[c] = <<>>

\* C10: two chat() invocations share no transcript and no loop state: each
\* enters its loop with a fresh transcript holding its own question, and at
\* every point its transcript and its tool results hold only what it put there
\* itself, however the two interleave.
C10_NoSharedTranscript ==
    \A c \in Invocations :
        /\ pc[c] = "idle" => (messages[c] = <<>> /\ iteration[c] = 0 /\ tool_results[c] = <<>>)
        /\ (pc[c] = "loop" /\ iteration[c] = 0) =>
                (FirstTranscript(c) /\ tool_results[c] = <<>> /\ requests[c] = 0)
        /\ \A m \in Range(messages[c]) :
              /\ m.owner = c
              /\ \A r \in Range(m.results) : r.owner = c
              /\ (m.role = "user" /\ m.content # <<>>) => m.content = <<args[c].question>>
        /\ \A r \in Range(tool_results[c]) : r.owner = c
        /\ requests[c] <= iteration[c]

C10_Witness ==
    /\ inst[1] = inst[2]
    /\ pc[1] = "done" /\ result[1].kind = "final" /\ iteration[1] = 2
    /\ pc[2] = "in_tool" /\ Len(messages[2]) >= 3
    /\ messages[1] # messages[2]

(***************************************************************************)
(* Properties of the tool declarations.                                    *)
(***************************************************************************)
\* C11: in one chat() of a loop-driven adapter the tools are listed exactly
\* once, before the first backend request, and every backend request of the
\* chat carries the same converted declarations.
C11_CatalogListedOnce ==
    \A c \in Invocations : IsLoop(c) =>
        /\ catalog[c].listed <= 1
        /\ requests[c] = 0 => catalog[c].sent = {}
        /\ requests[c] >= 1 =>
              /\ catalog[c].listed = 1
              /\ catalog[c].sent = {ConvertTools(VariantOf(c), Catalog)}
              /\ Len(catalog[c].tools) = Len(Catalog)

C11_Witness ==
    /\ VariantOf(1) = "openai" /\ requests[1] = 3 /\ catalog[1].listed = 1
    /\ Cardinality(catalog[1].sent) = 1

(***************************************************************************)
(* The helper functions, each applied to inputs of a bounded set.  Strings *)
(* the functions look into are sequences of characters.                    *)
(***************************************************************************)
\* The marker _get_tool_result puts after a cut result.
TruncationMarker ==
    <<"\n", ".", ".", ".", " ", "[", "R", "e", "s", "u", "l", "t", " ", "t",
      "r", "u", "n", "c", "a", "t", "e", "d", " ", "d", "u", "e", " ", "t",
      "o", " ", "s", "i", "z", "e", "]">>

\* _get_max_tool_result_length of each adapter class.
MaxToolResultLength(v) ==
    CASE v = "openai" -> 10000
      [] v = "llama" -> 8000
      [] v = "anthropic" -> 15000
      [] v = "google" -> 10000
      [] OTHER -> 5000

\* A tool result: the first `take` characters of the text `src`, then `tail`.
\* A result that is no string has kind "other".
Text(kind, src, take, tail) == [kind |-> kind, src |-> src, take |-> take, tail |-> tail]
TextLen(t) == t.take + Len(t.tail)

\* A cut that leaves the marker out (C12 must tell it from the code's).
TruncateWithoutMarker(t, max_length) ==
    IF t.kind = "str" /\ TextLen(t) > max_length
    THEN Text("str", t.src, max_length, <<>>)
    ELSE t
\* `tool_result[:max_length] + marker` when the result is a string longer than
\* max_length.  The results cut here are whole texts (no tail yet).
Truncate(t, max_length) ==
    IF t.kind = "str" /\ TextLen(t) > max_length
    THEN Text("str", t.src, max_length, TruncationMarker)
    ELSE t

\* The lengths of the raw results: around each adapter's budget.
ResultLengths ==
    {0, 1} \cup UNION {{n - 1, n, n + 1, 2 * n} :
                          n \in {MaxToolResultLength(v) : v \in Variants}}
RawResults ==
    {Text(k, src, n, <<>>) : k \in {"str", "other"}, src \in 1..MaxSources,
                               n \in ResultLengths}

(***************************************************************************)
(* _normalize_korrel8r_query.                                              *)
(***************************************************************************)
EscapedQuote == <<"\\", "\"">>
AlertBrace == <<"a", "l", "e", "r", "t", ":", "{">>
AlertAlertBrace == <<"a", "l", "e", "r", "t", ":", "a", "l", "e", "r", "t", ":", "{">>
AlertAlert == <<"a", "l", "e", "r", "t", ":", "a", "l", "e", "r", "t", ":">>
K8sAlert == <<"k", "8", "s", ":", "a", "l", "e", "r", "t", ":">>
AlertDomain == <<"a", "l", "e", "r", "t">>

\* re.search(r"\{(.*)\}", s): the leftmost "{" that has a "}" after it on the
\* same line, and the last such "}" (`.*` is greedy and stops at a newline).
\* The span of group 1, or first = 0 when there is no match.
ClosersOf(s, i) ==
    {j \in (i + 1)..Len(s) : s[j] = "}" /\ \A k \in (i + 1)..(j - 1) : s[k] # "\n"}
Openers(s) == {i \in DOMAIN s : s[i] = "{" /\ ClosersOf(s, i) # {}}
Max(S) == CHOOSE x \in S : \A y \in S : y <= x
Min(S) == CHOOSE x \in S : \A y \in S : x <= y
SelectorSpan(s) ==
    IF Openers(s) = {} THEN [first |-> 0, last |-> 0]
    ELSE [first |-> Min(Openers(s)) + 1, last |-> Max(ClosersOf(s, Min(Openers(s)))) - 1]

\* The pattern \b([A-Za-z0-9_\.]+)\s*=\s*(") tried at position p of t: the
\* end of the key and the position of the quote, or quote = 0 for no match.
RECURSIVE RunEnd(_, _, _)
\* the last position of the run of characters satisfying `class` that starts at p
RunEnd(t, p, class) ==
    IF p <= Len(t) /\ ((class = "key" /\ IsKeyChar(t[p])) \/ (class = "space" /\ IsSpace(t[p])))
    THEN RunEnd(t, p + 1, class)
    ELSE p - 1
WordBoundary(t, p) ==
    (p <= Len(t) /\ IsWord(t[p])) # (p > 1 /\ IsWord(t[p - 1]))
KeyMatch(t, p) ==
    LET keyEnd == RunEnd(t, p, "key")
        eq == RunEnd(t, keyEnd + 1, "space") + 1
        quote == RunEnd(t, eq + 1, "space") + 1
    IN  IF /\ WordBoundary(t, p)
           /\ keyEnd >= p
           /\ eq <= Len(t) /\ t[eq] = "="
           /\ quote <= Len(t) /\ t[quote] = "\""
        THEN [keyEnd |-> keyEnd, quote |-> quote]
        ELSE [keyEnd |-> 0, quote |-> 0]

\* Every domain written the generic way (C16 must tell it from the code's).
KeySeparatorGeneric(domain) == <<":", "=">>
\* repl_alert and repl_generic
KeySeparator(domain) == IF domain = AlertDomain THEN <<":">> ELSE <<":", "=">>

\* re.sub of the pattern over `t` from position p on: matches are replaced left
\* to right, the search going on after each match.
RECURSIVE RewriteKeys(_, _, _)
RewriteKeys(t, p, domain) ==
    IF p > Len(t) THEN <<>>
    ELSE LET m == KeyMatch(t, p)
         IN  IF m.quote # 0
             THEN <<"\"">> \o SubSeq(t, p, m.keyEnd) \o <<"\"">> \o KeySeparator(domain)
                    \o <<"\"">> \o RewriteKeys(t, m.quote + 1, domain)
             ELSE <<t[p]>> \o RewriteKeys(t, p + 1, domain)

\* lines 128-134: strip, unescape, insert the class of the alert domain
Unescaped(s) == IF Contains(s, EscapedQuote) THEN ReplaceAll(s, EscapedQuote, <<"\"">>) ELSE s
WithAlertClass(s) ==
    IF StartsWith(s, AlertBrace) THEN AlertAlertBrace \o From(s, Len(AlertBrace) + 1) ELSE s
\* line 137
DomainOf(s) == IF ":" \in Range(s) THEN SubSeq(s, 1, IndexOf(s, ":") - 1) ELSE <<>>
\* lines 144-163
RewriteSelector(s, domain) ==
    LET m == SelectorSpan(s)
    IN  IF m.first = 0 THEN s
        ELSE SubSeq(s, 1, m.first - 1)
                \o RewriteKeys(SubSeq(s, m.first, m.last), 1, domain)
                \o From(s, m.last + 1)

\* A query is a string or None: [none |-> BOOLEAN, s |-> characters].
Str(s) == [none |-> FALSE, s |-> s]
None == [none |-> TRUE, s |-> <<>>]

\* _normalize_korrel8r_query(q).  No step raises for a string or for None, so
\* the `except Exception: return q` is not taken.
NormalizeQuery(q) ==
    LET s0 == Strip(IF q.none THEN <<>> ELSE q.s)
        s1 == WithAlertClass(Unescaped(s0))
        misclassified == StartsWith(Lower(s1), K8sAlert)
        s2 == IF misclassified THEN AlertAlert \o AfterSecondColon(s1) ELSE s1
        domain == IF misclassified THEN AlertDomain ELSE DomainOf(s1)
    IN  Str(RewriteSelector(s2, domain))

\* The queries the normalizer is applied to: a prefix followed by up to
\* MaxQueryTokens pieces, and None.
QueryPrefixes ==
    {<<>>,
     <<"a", "l", "e", "r", "t", ":">>,
     <<"a", "l", "e", "r", "t", ":", "a", "l", "e", "r", "t", ":">>,
     <<"k", "8", "s", ":", "A", "l", "e", "r", "t", ":">>,
     <<"K", "8", "S", ":", "a", "l", "e", "r", "t", ":">>,
     <<"k", "8", "s", ":", "P", "o", "d", ":">>,
     <<" ">>}
QueryTokens ==
    {<<"{">>,
     <<"}">>,
     <<"{", "a", "=", "\"", "x", "\"", "}">>,
     <<"{", "n", ".", "s", " ", "=", " ", "\"", "y", "\"", "}">>,
     <<"{", "\"", "a", "\"", ":", "\"", "b", "\"", "}">>,
     <<"{", "\"", "a", "\"", ":", "\"", "b", "=", "\"", "}">>,
     <<"\"">>,
     <<"\\">>,
     <<" ">>,
     <<"\n">>,
     <<"a", "=", "\"", "x", "\"">>,
     <<"a", "l", "e", "r", "t", ":", "{">>,
     <<"\\", "\"">>}
RECURSIVE QueryBodies(_)
QueryBodies(n) ==
    IF n = 0 THEN {<<>>}
    ELSE QueryBodies(n - 1) \cup {b \o t : b \in QueryBodies(n - 1), t \in QueryTokens}
Queries == {None} \cup {Str(p \o b) : p \in QueryPrefixes, b \in QueryBodies(MaxQueryTokens)}

(***************************************************************************)
(* create_chatbot.                                                         *)
(***************************************************************************)
\* PROVIDER_PATTERNS, in the order of the dict: (provider, pattern, is_startswith)
PROVIDER_PATTERNS ==
    << [prov |-> "anthropic", pattern |-> <<"a", "n", "t", "h", "r", "o", "p", "i", "c", "/">>, is_startswith |-> FALSE],
       [prov |-> "anthropic", pattern |-> <<"c", "l", "a", "u", "d", "e">>, is_startswith |-> FALSE],
       [prov |-> "openai", pattern |-> <<"o", "p", "e", "n", "a", "i", "/">>, is_startswith |-> FALSE],
       [prov |-> "openai", pattern |-> <<"g", "p", "t", "-">>, is_startswith |-> TRUE],
       [prov |-> "openai", pattern |-> <<"o", "1", "-">>, is_startswith |-> TRUE],
       [prov |-> "google", pattern |-> <<"g", "o", "o", "g", "l", "e", "/">>, is_startswith |-> FALSE],
       [prov |-> "google", pattern |-> <<"g", "e", "m", "i", "n", "i">>, is_startswith |-> FALSE] >>

PatternMatches(p, model_lower) ==
    IF p.is_startswith THEN StartsWith(model_lower, p.pattern)
    ELSE Contains(model_lower, p.pattern)

\* The first pattern, in dict order, that matches decides the provider.
DetectProvider(model_lower) ==
    LET hits == {k \in DOMAIN PROVIDER_PATTERNS :
                    PatternMatches(PROVIDER_PATTERNS[k], model_lower)}
    IN  IF hits = {} THEN "none" ELSE PROVIDER_PATTERNS[Min(hits)].prov

ProviderBot(provider) ==
    CASE provider = "anthropic" -> "AnthropicChatBot"
      [] provider = "openai" -> "OpenAIChatBot"
      [] provider = "google" -> "GoogleChatBot"
      [] OTHER -> "OpenAIChatBot"

\* LLAMA_MODEL_PATTERNS, in the order of the dict; sizes <<>> with any = TRUE
\* stands for None.
LLAMA_MODEL_PATTERNS ==
    << [model |-> <<"l", "l", "a", "m", "a", ".", "3", ".", "1">>, bot_class |-> "LlamaChatBot", any |-> FALSE,
        sizes |-> <<<<"8", "b">>, <<"7", "0", "b">>>>],
       [model |-> <<"l", "l", "a", "m", "a", ".", "3", ".", "3">>, bot_class |-> "LlamaChatBot", any |-> FALSE,
        sizes |-> <<<<"7", "0", "b">>>>],
       [model |-> <<"l", "l", "a", "m", "a", ".", "3", ".", "2">>, bot_class |-> "DeterministicChatBot", any |-> TRUE,
        sizes |-> <<>>] >>

\* model_name.lower().replace("-", ".")
LocalName(model_name) == [k \in DOMAIN model_name |->
                            IF model_name[k] = "-" THEN "." ELSE LowerChar(model_name[k])]

\* The first family, in dict order, that occurs in the name with one of its
\* sizes (or with no size gate) decides; otherwise the deterministic adapter.
LocalBot(model_name) ==
    LET model_lower == LocalName(model_name)
        hits == {k \in DOMAIN LLAMA_MODEL_PATTERNS :
                    /\ Contains(model_lower, LLAMA_MODEL_PATTERNS[k].model)
                    /\ \/ LLAMA_MODEL_PATTERNS[k].any
                       \/ \E i \in DOMAIN LLAMA_MODEL_PATTERNS[k].sizes :
                            Contains(model_lower, LLAMA_MODEL_PATTERNS[k].sizes[i])}
    IN  IF hits = {} THEN "DeterministicChatBot"
        ELSE LLAMA_MODEL_PATTERNS[Min(hits)].bot_class

Created(bot_class, model_name) ==
    [raised |-> "none", bot_class |-> bot_class, model_name |-> model_name]
FactoryRaised(error) == [raised |-> error, bot_class |-> "none", model_name |-> <<>>]

\* create_chatbot(model_name, api_key, tool_executor); has_executor is
\* "tool_executor is not None".
CreateChatbotOf(model_name, has_executor) ==
    IF ~has_executor THEN FactoryRaised("ValueError")
    ELSE LET provider == DetectProvider(Lower(model_name))
         IN  IF provider # "none" THEN Created(ProviderBot(provider), model_name)
             ELSE Created(LocalBot(model_name), model_name)

\* The identifiers the factory is called with: the empty name, or a head
\* (provider marker, organisation or model family) followed by further heads
\* and tails (sizes and suffixes), MaxNameParts pieces at most.
NameHeads ==
    {<<"a", "n", "t", "h", "r", "o", "p", "i", "c", "/">>,
     <<"c", "l", "a", "u", "d", "e">>,
     <<"C", "l", "a", "u", "d", "e", "-", "3">>,
     <<"o", "p", "e", "n", "a", "i", "/">>,
     <<"g", "p", "t", "-">>,
     <<"G", "P", "T", "-", "4", "o">>,
     <<"o", "1", "-">>,
     <<"g", "o", "o", "g", "l", "e", "/">>,
     <<"g", "e", "m", "i", "n", "i">>,
     <<"x", "/">>,
     <<"m", "e", "t", "a", "-", "l", "l", "a", "m", "a", "/", "L", "l", "a", "m", "a", "-", "3", ".", "1">>,
     <<"l", "l", "a", "m", "a", "-", "3", ".", "2">>,
     <<"L", "l", "a", "m", "a", "-", "3", ".", "3">>,
     <<"l", "l", "a", "m", "a", "3", ".", "1">>,
     <<"m", "i", "s", "t", "r", "a", "l">>}
NameTails ==
    {<<"-", "8", "B">>,
     <<"-", "7", "0", "b">>,
     <<"-", "4", "0", "5", "B">>,
     <<"-", "1", "8", "b">>,
     <<"-", "3", "B">>,
     <<"-", "4", "0", "5", "B", "-", "8", "b", "i", "t">>,
     <<"-", "I", "n", "s", "t", "r", "u", "c", "t">>}
RECURSIVE ModelNamesOf(_)
ModelNamesOf(n) ==
    IF n = 0 THEN {<<>>}
    ELSE IF n = 1 THEN {<<>>} \cup NameHeads
    ELSE ModelNamesOf(n - 1)
            \cup {m \o x : m \in ModelNamesOf(n - 1) \ {<<>>}, x \in NameHeads \cup NameTails}
ModelNames == ModelNamesOf(MaxNameParts)
FactoryCalls ==
    {Calling("create_chatbot", [model_name |-> m, has_executor |-> e]) :
        m \in ModelNames, e \in BOOLEAN}

(***************************************************************************)
(* BaseChatBot.__init__, which every adapter's constructor calls first.    *)
(* tool_executor is "none" (None), "object" (something that is not a       *)
(* ToolExecutor) or "ToolExecutor".                                        *)
(***************************************************************************)
ExecutorKinds == {"none", "object", "ToolExecutor"}
AdapterClasses == {"OpenAIChatBot", "LlamaChatBot", "DeterministicChatBot"}

\* A constructor without the isinstance test (C21 must tell it from the code's).
BaseInitDuckTyped(bot_class, model_name, tool_executor) ==
    IF tool_executor = "none" THEN FactoryRaised("ValueError")
    ELSE Created(bot_class, model_name)

BaseInit(bot_class, model_name, tool_executor) ==
    IF tool_executor = "none" THEN FactoryRaised("ValueError")
    ELSE IF tool_executor # "ToolExecutor" THEN FactoryRaised("TypeError")
    ELSE Created(bot_class, model_name)

ConstructCalls ==
    {Calling("__init__", [bot_class |-> b, model_name |-> n, tool_executor |-> e]) :
        b \in AdapterClasses, n \in ModelNamesOf(1), e \in ExecutorKinds}

(***************************************************************************)
(* _format_deterministic_response.  A value is a decimal number num / den. *)
(***************************************************************************)
Hundredths(n) == [none |-> FALSE, num |-> n, den |-> 100]
NoValue == [none |-> TRUE, num |-> 0, den |-> 1]

\* _extract_numeric_value: the value of a JSON result, of a "value" pair
\* found by the pattern, or the first decimal number; None otherwise.
ExtractNumericValue(result_text) ==
    IF result_text.shape \in {"json", "value_pair", "decimal"} THEN result_text.value
    ELSE NoValue

\* v < n for a whole number n
Below(v, n) == v.num < n * v.den

\* cpu_percent = cpu_value * 100
Percent(v) == [v EXCEPT !.num = v.num * 100]

\* Tiers whose boundaries belong to the lower tier (C24 needs the code's <).
CpuLevelInclusive(v) ==
    IF v.num * 100 <= 20 * v.den THEN "low"
    ELSE IF v.num * 100 <= 60 * v.den THEN "moderate"
    ELSE IF v.num * 100 <= 80 * v.den THEN "high"
    ELSE "very high"

CpuLevel(v) ==
    IF Below(Percent(v), 20) THEN "low"
    ELSE IF Below(Percent(v), 60) THEN "moderate"
    ELSE IF Below(Percent(v), 80) THEN "high"
    ELSE "very high"

CpuRecommendation(level) ==
    CASE level = "low" -> "The cluster has plenty of available computational resources."
      [] level = "moderate" -> "CPU utilization is within normal operating range."
      [] level = "high" -> "Consider monitoring for potential performance impacts."
      [] OTHER -> "CPU resources are heavily utilized. Consider scaling or optimization."

MemoryLevel(v) ==
    IF Below(v, 100) THEN "low"
    ELSE IF Below(v, 500) THEN "moderate"
    ELSE IF Below(v, 1000) THEN "high"
    ELSE "very high"

MemoryRecommendation(level) ==
    CASE level = "low" -> "Memory usage is minimal, plenty of capacity available."
      [] level = "moderate" -> "Memory usage is within normal operating range."
      [] level = "high" -> "Memory usage is elevated. Monitor for potential issues."
      [] OTHER -> "Substantial memory consumption. Review container memory requests and limits."

Formatted(heading, shown, level, recommendation) ==
    [heading |-> heading, shown |-> shown, usage_level |-> level,
     recommendation |-> recommendation]

FormatCpuResponse(result_text) ==
    LET cpu_value == ExtractNumericValue(result_text)
    IN  IF cpu_value.none
        THEN Formatted("CPU Usage Analysis", NoValue, "none", "none")
        ELSE Formatted("CPU Usage Overview", Percent(cpu_value), CpuLevel(cpu_value),
                       CpuRecommendation(CpuLevel(cpu_value)))

FormatMemoryResponse(result_text) ==
    LET memory_gb == ExtractNumericValue(result_text)
    IN  IF memory_gb.none
        THEN Formatted("Memory Usage Analysis", NoValue, "none", "none")
        ELSE Formatted("Memory Usage Analysis", memory_gb, MemoryLevel(memory_gb),
                       MemoryRecommendation(MemoryLevel(memory_gb)))

FormatDeterministicResponse(query_type, result_text) ==
    IF query_type = "cpu" THEN FormatCpuResponse(result_text)
    ELSE IF query_type = "memory" THEN FormatMemoryResponse(result_text)
    ELSE Formatted("Unable to format response for this query type.", NoValue,
                   "none", "none")

\* The query results the formatter is given: CPU ratios up to MaxRatio
\* hundredths, memory sizes around the tier boundaries, and results without a
\* number.
MemoryGiB == {0, 99, 100, 250, 499, 500, 999, 1000, 2000}
MetricValues(query_type) ==
    IF query_type = "cpu" THEN {Hundredths(n) : n \in 0..MaxRatio}
    ELSE {Hundredths(g * 100 + f) : g \in MemoryGiB, f \in {0, 1, 99}}
MetricResults(query_type) ==
    {[shape |-> sh, value |-> v] :
        sh \in {"json", "value_pair", "decimal"}, v \in MetricValues(query_type)}
    \cup {[shape |-> sh, value |-> NoValue] : sh \in {"no_number", "not_str"}}
FormatCalls ==
    UNION {{Calling("_format_deterministic_response", [query_type |-> qt, result |-> r]) :
                r \in MetricResults(qt)} : qt \in {"cpu", "memory"}}

(***************************************************************************)
(* _extract_model_name.                                                    *)
(***************************************************************************)
\* An extraction that cuts at the last "/" (C26 needs the code's first "/").
ExtractModelNameLastSlash(v, model_name) ==
    IF v = "llama" THEN model_name
    ELSE IF "/" \in Range(model_name)
    THEN From(model_name, 1 + CHOOSE k \in DOMAIN model_name :
                /\ model_name[k] = "/"
                /\ \A j \in (k + 1)..Len(model_name) : model_name[j] # "/")
    ELSE model_name

\* self.model_name.split("/", 1)[1] when "/" is in the name; the Llama adapter
\* overrides it and returns the name as it is.
ExtractModelName(v, model_name) ==
    IF v = "llama" THEN model_name
    ELSE IF "/" \in Range(model_name) THEN From(model_name, IndexOf(model_name, "/") + 1)
    ELSE model_name

ExtractCalls ==
    {Calling("_extract_model_name", [variant |-> v, model_name |-> n]) :
        v \in LoopVariants, n \in ModelNames}

FnIdle ==
    /\ active = {}
    /\ inst = [c \in Invocations |-> "A"]
    /\ adapter = [i \in Instances |->
                    Constructed("openai", TRUE, TRUE)]
    /\ args = [c \in Invocations |-> [question |-> Questions[1], callback |-> "none"]]
    /\ env = [c \in Invocations |-> [mode |-> "free", width |-> 0, turns |-> 0]]
    /\ Idle

\* The calls of _get_tool_result: the adapter and what the routing returned.
ToolResultCalls ==
    {Calling("_get_tool_result", [variant |-> v, raw |-> raw]) :
        v \in Variants, raw \in RawResults}
NormalizeCalls == {Calling("_normalize_korrel8r_query", q) : q \in Queries}

(***************************************************************************)
(* The argument handling of _route_tool_call_to_mcp.  An argument value    *)
(* carries its Python type; the arguments are a dict (a function from keys *)
(* to values) or, when the backend sent something else, a list.            *)
(***************************************************************************)
ArgStr(s) == [type |-> "str", s |-> s]
ArgOther(type) == [type |-> type, s |-> <<>>]
Dict(items) == [kind |-> "dict", items |-> items]
CorrelationTool == "korrel8r_get_correlated"

\* isinstance(arguments, dict), arguments.get("query"), isinstance(q, str) and q
HasQueryString(arguments) ==
    /\ arguments.kind = "dict"
    /\ "query" \in DOMAIN arguments.items
    /\ arguments.items["query"].type = "str"
    /\ arguments.items["query"].s # <<>>

NormalizedArg(arguments) == ArgStr(NormalizeQuery(Str(arguments.items["query"].s)).s)

\* A routing that writes the normalized query into the caller's own dict
\* (C18 must tell it from the code's).
RouteArgumentsInPlace(tool_name, arguments) ==
    IF tool_name = CorrelationTool /\ HasQueryString(arguments)
    THEN [caller |-> [arguments EXCEPT !.items["query"] = NormalizedArg(arguments)],
          passed |-> [arguments EXCEPT !.items["query"] = NormalizedArg(arguments)]]
    ELSE [caller |-> arguments, passed |-> arguments]

\* caller: the caller's mapping after the call; passed: what call_tool received.
RouteArguments(tool_name, arguments) ==
    IF /\ tool_name = CorrelationTool
       /\ HasQueryString(arguments)
       /\ NormalizedArg(arguments) # arguments.items["query"]
    THEN [caller |-> arguments,
          passed |-> Dict([k \in DOMAIN arguments.items |->
                             IF k = "query" THEN NormalizedArg(arguments)
                             ELSE arguments.items[k]])]
    ELSE [caller |-> arguments, passed |-> arguments]

RoutedTools == Range(Catalog) \cup {"korrel8r_query_objects"}
QueryArgs ==
    {ArgStr(<<>>), ArgStr(<<" ">>), ArgOther("NoneType"), ArgOther("int"),
     ArgStr(<<"a", "l", "e", "r", "t", ":", "{", "\"", "a", "\"", ":", "\"", "b", "\"", "}">>),
     ArgStr(<<"a", "l", "e", "r", "t", ":", "a", "l", "e", "r", "t", ":", "{", "\"", "a", "\"", ":", "\"", "b", "\"", "}">>),
     ArgStr(<<"k", "8", "s", ":", "P", "o", "d", ":", "{", "a", "=", "\"", "x", "\"", "}">>)}
RoutedArguments ==
    {Dict([k \in {"query"} |-> q]) : q \in QueryArgs}
    \cup {Dict([k \in {"query", "goal"} |-> IF k = "query" THEN q ELSE ArgStr(<<"g">>)]) :
            q \in QueryArgs}
    \cup {Dict([k \in {"goal"} |-> q]) : q \in QueryArgs}
    \cup {[kind |-> "list", items |-> [k \in {"query"} |-> q]] : q \in QueryArgs}
RouteCalls ==
    {Calling("_route_tool_call_to_mcp",
             [tool_name |-> t, arguments |-> a, outcome |-> o]) :
        t \in RoutedTools, a \in RoutedArguments, o \in {"ok", "raise"}}

InitFn ==
    /\ FnIdle
    /\ \/ applied \in ToolResultCalls
       \/ applied \in NormalizeCalls
       \/ applied \in RouteCalls
       \/ applied \in FactoryCalls
       \/ applied \in ConstructCalls
       \/ applied \in FormatCalls
       \/ applied \in ExtractCalls

ChatUntouched ==
    UNCHANGED <<active, inst, adapter, args, env, pc, messages, iteration,
                response, tool_results, result, requests, dispatched, inflight,
                failures, faults, catalog>>

\* _get_tool_result on what _route_tool_call_to_mcp returned.
GetToolResult ==
    /\ applied.fn = "_get_tool_result" /\ ~applied.done
    /\ applied' = [applied EXCEPT !.done = TRUE,
                       !.out = Truncate(applied.in.raw,
                                        MaxToolResultLength(applied.in.variant))]
    /\ ChatUntouched

\* _normalize_korrel8r_query applied to a query, and again to its result.
Normalize ==
    /\ applied.fn = "_normalize_korrel8r_query" /\ ~applied.done
    /\ applied' = [applied EXCEPT !.done = TRUE,
                       !.out = [once |-> NormalizeQuery(applied.in),
                                twice |-> NormalizeQuery(NormalizeQuery(applied.in))]]
    /\ ChatUntouched

\* _route_tool_call_to_mcp: the query is normalized where the code does so,
\* call_tool receives the arguments, and its result or error text is returned.
RouteToMcp ==
    /\ applied.fn = "_route_tool_call_to_mcp" /\ ~applied.done
    /\ applied' = [applied EXCEPT !.done = TRUE,
                       !.out = [caller |-> RouteArguments(applied.in.tool_name,
                                                          applied.in.arguments).caller,
                                passed |-> RouteArguments(applied.in.tool_name,
                                                          applied.in.arguments).passed,
                                returned |-> RouteToolCall(applied.in.tool_name,
                                                           applied.in.outcome)]]
    /\ ChatUntouched

\* create_chatbot: the adapter class chosen for a model name.
CreateChatbot ==
    /\ applied.fn = "create_chatbot" /\ ~applied.done
    /\ applied' = [applied EXCEPT !.done = TRUE,
                       !.out = CreateChatbotOf(applied.in.model_name,
                                               applied.in.has_executor)]
    /\ ChatUntouched

\* An adapter is constructed directly.
ConstructAdapter ==
    /\ applied.fn = "__init__" /\ ~applied.done
    /\ applied' = [applied EXCEPT !.done = TRUE,
                       !.out = BaseInit(applied.in.bot_class, applied.in.model_name,
                                        applied.in.tool_executor)]
    /\ ChatUntouched

\* _format_deterministic_response on the one tool result of the chat().
FormatResponse ==
    /\ applied.fn = "_format_deterministic_response" /\ ~applied.done
    /\ applied' = [applied EXCEPT !.done = TRUE,
                       !.out = FormatDeterministicResponse(applied.in.query_type,
                                                           applied.in.result)]
    /\ ChatUntouched

\* _extract_model_name reads self.model_name and assigns nothing.
ExtractName ==
    /\ applied.fn = "_extract_model_name" /\ ~applied.done
    /\ applied' = [applied EXCEPT !.done = TRUE,
                       !.out = [sent |-> ExtractModelName(applied.in.variant,
                                                          applied.in.model_name),
                                model_name |-> applied.in.model_name]]
    /\ ChatUntouched

NextFn ==
    \/ GetToolResult
    \/ Normalize
    \/ RouteToMcp
    \/ CreateChatbot
    \/ ConstructAdapter
    \/ FormatResponse
    \/ ExtractName

SpecFn == InitFn /\ [][NextFn]_vars

\* C12: a string tool result of length <= N (the adapter's budget) comes back
\* unchanged; a longer one comes back as its first N characters followed by the
\* marker, of length exactly N + len(marker); no result is longer than that.
C12_TruncateToBudget ==
    (applied.fn = "_get_tool_result" /\ applied.done /\ applied.in.raw.kind = "str") =>
        LET raw == applied.in.raw
            out == applied.out
            N == CASE applied.in.variant \in {"openai", "google"} -> 10000
                   [] applied.in.variant = "llama" -> 8000
                   [] applied.in.variant = "anthropic" -> 15000
                   [] OTHER -> 5000
        IN  /\ raw.take <= N => out = raw
            /\ raw.take > N =>
                  /\ out.kind = "str" /\ out.src = raw.src /\ out.take = N
                  /\ out.tail = TruncationMarker
                  /\ TextLen(out) = N + 35
            /\ TextLen(out) <= N + 35

C12_Witness ==
    /\ applied.fn = "_get_tool_result" /\ applied.done
    /\ applied.in.variant = "anthropic"
    /\ applied.in.raw.kind = "str" /\ applied.in.raw.take = 15001
    /\ applied.out.take = 15000 /\ applied.out.tail = TruncationMarker

(***************************************************************************)
(* Properties of _normalize_korrel8r_query.                                *)
(***************************************************************************)
Normalized == applied.fn = "_normalize_korrel8r_query" /\ applied.done
IsSuffix(t, s) == Len(t) <= Len(s) /\ From(s, Len(s) - Len(t) + 1) = t

\* C13: the normalizer is idempotent: normalizing its result again gives the
\* same string.
C13_NormalizeIdempotent ==
    Normalized => applied.out.twice = applied.out.once

\* No repair pattern matches s: no escaped quote, no "alert:{" at the start, no
\* "k8s:alert:" prefix, and no "=" for a key=value pair.
NoRepairApplies(s) ==
    /\ ~Contains(s, <<"\\", "\"">>)
    /\ ~StartsWith(s, <<"a", "l", "e", "r", "t", ":", "{">>)
    /\ ~StartsWith(Lower(s), <<"k", "8", "s", ":", "a", "l", "e", "r", "t", ":">>)
    /\ "=" \notin Range(s)

C14_Total ==
    Normalized =>
        /\ ~applied.out.once.none
        /\ (applied.in.none \/ applied.in.s = <<>>) => applied.out.once.s = <<>>

IsStripped(t, s) ==
    /\ t # <<>> => ~IsSpace(t[1]) /\ ~IsSpace(t[Len(t)])
    /\ \E i \in 1..(Len(s) + 1) :
          /\ i + Len(t) - 1 <= Len(s)
          /\ SubSeq(s, i, i + Len(t) - 1) = t
          /\ \A k \in DOMAIN s : (k < i \/ k > i + Len(t) - 1) => IsSpace(s[k])

WellFormedSelectors ==
    {<<"{", "\"", "a", "\"", ":", "\"", "b", "\"", "}">>,
     <<"{", "\"", "a", "\"", ":", "\"", "b", "=", "\"", "}">>}

\* C15: a query that starts with "alert:{" comes back starting with
\* "alert:alert:{", only that first occurrence being changed; a query that
\* already starts with "alert:alert:{" and has a well-formed JSON selector
\* comes back unchanged.
C15_AlertClassInserted ==
    (Normalized /\ ~applied.in.none) =>
        LET q == applied.in.s
            out == applied.out.once.s
        IN  /\ StartsWith(q, <<"a", "l", "e", "r", "t", ":", "{">>) => StartsWith(out, <<"a", "l", "e", "r", "t", ":", "a", "l", "e", "r", "t", ":", "{">>)
            /\ (/\ StartsWith(q, <<"a", "l", "e", "r", "t", ":", "{">>)
                /\ "=" \notin Range(q) /\ "\\" \notin Range(q)
                /\ ~IsSpace(q[Len(q)]))
                  => out = <<"a", "l", "e", "r", "t", ":">> \o q
            /\ (\E j \in WellFormedSelectors : q = <<"a", "l", "e", "r", "t", ":", "a", "l", "e", "r", "t", ":">> \o j) => out = q

\* C16: a query whose prefix is "k8s:alert:" in any letter case comes back
\* with the prefix "alert:alert:" and the rest after the second colon kept,
\* its key="val" pairs written the alert way ("key":"val", never "key":="val").
C16_MisclassifiedAlert ==
    (Normalized /\ ~applied.in.none /\ StartsWith(Lower(applied.in.s), <<"k", "8", "s", ":", "a", "l", "e", "r", "t", ":">>)) =>
        LET q == applied.in.s
            out == applied.out.once.s
            rest == From(q, 11)
        IN  /\ StartsWith(out, <<"a", "l", "e", "r", "t", ":", "a", "l", "e", "r", "t", ":">>)
            /\ ("=" \notin Range(q) /\ "\\" \notin Range(q)
                    /\ ~IsSpace(q[Len(q)]))
                  => out = <<"a", "l", "e", "r", "t", ":", "a", "l", "e", "r", "t", ":">> \o rest
            /\ rest = <<"{", "a", "=", "\"", "x", "\"", "}">> => out = <<"a", "l", "e", "r", "t", ":", "a", "l", "e", "r", "t", ":", "{", "\"", "a", "\"", ":", "\"", "x", "\"", "}">>
            /\ rest = <<"{", "n", ".", "s", " ", "=", " ", "\"", "y", "\"", "}">> => out = <<"a", "l", "e", "r", "t", ":", "a", "l", "e", "r", "t", ":", "{", "\"", "n", ".", "s", "\"", ":", "\"", "y", "\"", "}">>
            /\ ~Contains(out, <<"\"", ":", "=">>)

C16_Witness ==
    /\ Normalized
    /\ applied.in.s = <<"K", "8", "S", ":", "a", "l", "e", "r", "t", ":", "{", "a", "=", "\"", "x", "\"", "}">>
    /\ applied.out.once.s = <<"a", "l", "e", "r", "t", ":", "a", "l", "e", "r", "t", ":", "{", "\"", "a", "\"", ":", "\"", "x", "\"", "}">>

\* C17: key="val" pairs are rewritten only between the first "{" and the first
\* "}" after it; what precedes that "{" and what follows that "}" comes back
\* untouched.  (Stated for queries the earlier steps leave alone.)
C17_OnlyFirstSelectorBody ==
    (/\ Normalized /\ ~applied.in.none
     /\ "{" \in Range(applied.in.s)
     /\ ~Contains(applied.in.s, <<"\\", "\"">>)
     /\ ~StartsWith(applied.in.s, <<"a", "l", "e", "r", "t", ":", "{">>)
     /\ ~StartsWith(Lower(applied.in.s), <<"k", "8", "s", ":", "a", "l", "e", "r", "t", ":">>)
     /\ ~IsSpace(applied.in.s[1]) /\ ~IsSpace(applied.in.s[Len(applied.in.s)])) =>
        LET q == applied.in.s
            out == applied.out.once.s
            open == IndexOf(q, "{")
            close == open + IndexOf(From(q, open + 1), "}")
        IN  /\ StartsWith(out, SubSeq(q, 1, open))
            /\ close > open => IsSuffix(From(q, close), out)
            /\ close = open => out = q

Routed == applied.fn = "_route_tool_call_to_mcp" /\ applied.done

\* C18: the query is normalized only for korrel8r_get_correlated with a
\* non-empty string "query"; for every other tool call_tool receives the
\* arguments as given; the caller's mapping is never modified.
C18_NormalizeOnlyCorrelationQuery ==
    Routed =>
        LET given == applied.in.arguments
            passed == applied.out.passed
            isQuery == /\ given.kind = "dict"
                       /\ "query" \in DOMAIN given.items
                       /\ given.items["query"].type = "str"
                       /\ given.items["query"].s # <<>>
        IN  /\ applied.out.caller = given
            /\ applied.in.tool_name # "korrel8r_get_correlated" => passed = given
            /\ ~isQuery => passed = given
            /\ (applied.in.tool_name = "korrel8r_get_correlated" /\ isQuery) =>
                  /\ passed.kind = "dict"
                  /\ DOMAIN passed.items = DOMAIN given.items
                  /\ \A k \in DOMAIN given.items \ {"query"} :
                        passed.items[k] = given.items[k]
                  /\ passed.items["query"] =
                        [type |-> "str",
                         s |-> NormalizeQuery(Str(given.items["query"].s)).s]

C18_Witness ==
    /\ Routed
    /\ applied.in.tool_name = "korrel8r_get_correlated"
    /\ applied.in.arguments.kind = "dict"
    /\ DOMAIN applied.in.arguments.items = {"query", "goal"}
    /\ applied.in.arguments.items["query"].s = <<"a", "l", "e", "r", "t", ":", "{", "\"", "a", "\"", ":", "\"", "b", "\"", "}">>
    /\ applied.out.passed.items["query"].s = <<"a", "l", "e", "r", "t", ":", "a", "l", "e", "r", "t", ":", "{", "\"", "a", "\"", ":", "\"", "b", "\"", "}">>
    /\ applied.out.caller = applied.in.arguments

(***************************************************************************)
(* Properties of create_chatbot.                                           *)
(***************************************************************************)
ChatbotCreated == applied.fn = "create_chatbot" /\ applied.done /\ applied.in.has_executor

\* The markers as the selection rules give them: anywhere in the identifier
\* for Anthropic and Google, at its start for OpenAI.
Markers ==
    {[bot |-> "AnthropicChatBot", marker |-> <<"a", "n", "t", "h", "r", "o", "p", "i", "c", "/">>, atStart |-> FALSE],
     [bot |-> "AnthropicChatBot", marker |-> <<"c", "l", "a", "u", "d", "e">>, atStart |-> FALSE],
     [bot |-> "OpenAIChatBot", marker |-> <<"o", "p", "e", "n", "a", "i", "/">>, atStart |-> TRUE],
     [bot |-> "OpenAIChatBot", marker |-> <<"g", "p", "t", "-">>, atStart |-> TRUE],
     [bot |-> "OpenAIChatBot", marker |-> <<"o", "1", "-">>, atStart |-> TRUE],
     [bot |-> "GoogleChatBot", marker |-> <<"g", "o", "o", "g", "l", "e", "/">>, atStart |-> FALSE],
     [bot |-> "GoogleChatBot", marker |-> <<"g", "e", "m", "i", "n", "i">>, atStart |-> FALSE]}
MarkersIn(name) ==
    {m \in Markers : IF m.atStart THEN StartsWith(Lower(name), m.marker)
                     ELSE Contains(Lower(name), m.marker)}

\* C19: the hosted adapter is chosen case-insensitively by the markers, and
\* where markers of two providers occur the provider of the longest marker
\* wins; "anthropic/claude-3-5-haiku"-like names give Anthropic and
\* "openai/gpt-4o-mini"-like names give OpenAI.
C19_LongestMarkerWins ==
    ChatbotCreated =>
        \A m \in MarkersIn(applied.in.model_name) :
            (\A o \in MarkersIn(applied.in.model_name) :
                o.bot # m.bot => Len(o.marker) < Len(m.marker))
              => applied.out.bot_class = m.bot

\* x is a whole segment of the normalized name: between "." or "/" or the ends.
HasSize(name, x) ==
    \E k \in 1..(Len(name) - Len(x) + 1) :
        /\ SubSeq(name, k, k + Len(x) - 1) = x
        /\ k = 1 \/ name[k - 1] \in {".", "/"}
        /\ k + Len(x) - 1 = Len(name) \/ name[k + Len(x)] = "."

\* C20: a name without any provider marker gets the Llama adapter exactly when
\* it is a Llama 3.1 of size 8b or 70b or a Llama 3.3 of size 70b (after
\* lower-casing and "-" -> "."), the deterministic adapter otherwise, and the
\* adapter keeps the name as given.
C20_LocalAdapterBySize ==
    (ChatbotCreated /\ \A m \in Markers : ~Contains(Lower(applied.in.model_name), m.marker)) =>
        LET name == [k \in DOMAIN applied.in.model_name |->
                        IF applied.in.model_name[k] = "-" THEN "."
                        ELSE LowerChar(applied.in.model_name[k])]
            capable ==
                \/ /\ Contains(name, <<"l", "l", "a", "m", "a", ".", "3", ".", "1">>)
                   /\ HasSize(name, <<"8", "b">>) \/ HasSize(name, <<"7", "0", "b">>)
                \/ /\ Contains(name, <<"l", "l", "a", "m", "a", ".", "3", ".", "3">>)
                   /\ HasSize(name, <<"7", "0", "b">>)
        IN  /\ applied.out.raised = "none"
            /\ applied.out.model_name = applied.in.model_name
            /\ applied.out.bot_class =
                  IF capable THEN "LlamaChatBot" ELSE "DeterministicChatBot"

DetDone(c) ==
    c \in active /\ VariantOf(c) = "deterministic" /\ result[c].kind # "running"

HasAny(q, terms) ==
    \E t \in terms : Contains(Lower(QuestionText(q)), t)

\* C22: a question with none of "cpu", "memory", "mem", "ram" in it returns the
\* static guidance message and call_tool is never invoked during that chat().
\* (Stated for chats without a progress callback.)
C22_GuidanceWithoutTool ==
    \A c \in Invocations :
        (/\ DetDone(c)
         /\ args[c].callback = "none"
         /\ ~HasAny(args[c].question,
                   {<<"c", "p", "u">>, <<"m", "e", "m", "o", "r", "y">>,
                    <<"m", "e", "m">>, <<"r", "a", "m">>}))
          => /\ result[c].kind = "guidance"
             /\ dispatched[c] = <<>>

\* C23: memory terms are tried before CPU terms, so a question with both gets
\* the memory query; on any keyword match call_tool is invoked exactly once in
\* the chat(), for execute_promql with the selected canned query, and no
\* backend request is made.
C23_OneCannedQuery ==
    \A c \in Invocations :
        (DetDone(c) /\ HasAny(args[c].question,
                              {<<"c", "p", "u">>, <<"u", "s", "a", "g", "e">>,
                               <<"u", "t", "i", "l", "i", "z", "a", "t", "i", "o", "n">>,
                               <<"m", "e", "m", "o", "r", "y">>,
                               <<"m", "e", "m">>, <<"r", "a", "m">>}))
          => /\ Len(dispatched[c]) = 1
             /\ Len(tool_results[c]) = 1
             /\ tool_results[c][1].name = "execute_promql"
             /\ tool_results[c][1].query =
                   IF HasAny(args[c].question,
                             {<<"m", "e", "m", "o", "r", "y">>, <<"m", "e", "m">>,
                              <<"r", "a", "m">>})
                   THEN "sum(container_memory_usage_bytes{}) / 1024 / 1024 / 1024"
                   ELSE "cluster:container_cpu_usage:ratio"
             /\ requests[c] = 0

FormattedValue ==
    /\ applied.fn = "_format_deterministic_response" /\ applied.done
    /\ ~applied.in.result.value.none

\* C24: every extracted value gets exactly one of four tiers, a boundary value
\* belonging to the higher one: CPU percentage (ratio x 100) low below 20,
\* moderate below 60, high below 80, very high from 80; memory in GiB low below
\* 100, moderate below 500, high below 1000, very high from 1000; each tier has
\* its own recommendation sentence.
C24_Tiers ==
    FormattedValue =>
        LET v == applied.in.result.value
            level == applied.out.usage_level
            cpu == applied.in.query_type = "cpu"
            \* the value against a whole number n, in the unit of the tiers
            lt(n) == IF cpu THEN v.num * 100 < n * v.den ELSE v.num < n * v.den
            b1 == IF cpu THEN 20 ELSE 100
            b2 == IF cpu THEN 60 ELSE 500
            b3 == IF cpu THEN 80 ELSE 1000
        IN  /\ level \in {"low", "moderate", "high", "very high"}
            /\ level = "low" <=> lt(b1)
            /\ level = "moderate" <=> (~lt(b1) /\ lt(b2))
            /\ level = "high" <=> (~lt(b2) /\ lt(b3))
            /\ level = "very high" <=> ~lt(b3)
            /\ applied.out.recommendation =
                  IF cpu
                  THEN CASE level = "low" -> "The cluster has plenty of available computational resources."
                         [] level = "moderate" -> "CPU utilization is within normal operating range."
                         [] level = "high" -> "Consider monitoring for potential performance impacts."
                         [] OTHER -> "CPU resources are heavily utilized. Consider scaling or optimization."
                  ELSE CASE level = "low" -> "Memory usage is minimal, plenty of capacity available."
                         [] level = "moderate" -> "Memory usage is within normal operating range."
                         [] level = "high" -> "Memory usage is elevated. Monitor for potential issues."
                         [] OTHER -> "Substantial memory consumption. Review container memory requests and limits."

\* The two examples: CPU ratio 0.85 is very high.
C24_Witness ==
    /\ FormattedValue
    /\ applied.in.query_type = "cpu"
    /\ applied.in.result.value.num = 85 /\ applied.in.result.value.den = 100
    /\ applied.out.usage_level = "very high"

(***************************************************************************)
(* Properties of the hosted adapters' configuration.                       *)
(***************************************************************************)
\* C25: a hosted adapter without an API key fails fast: chat() sends no
\* backend request, lists and calls no tool, and returns the message that an
\* API key is required for that model.  (Stated for an installed SDK.)
C25_MissingKeyFailsFast ==
    \A c \in Invocations :
        (/\ c \in active
         /\ VariantOf(c) \in {"openai", "anthropic", "google"}
         /\ adapter[inst[c]].sdk /\ ~adapter[inst[c]].key
         /\ result[c].kind # "running")
          => /\ requests[c] = 0
             /\ catalog[c].listed = 0
             /\ dispatched[c] = <<>>
             /\ result[c].text[1] = "API key required for "

\* C26: the hosted adapters send the stored model name without everything up
\* to and including its first "/" (the whole name when it has no "/"); the
\* Llama adapter sends the full stored name; the stored name is unchanged.
C26_ModelNameSent ==
    (applied.fn = "_extract_model_name" /\ applied.done) =>
        LET name == applied.in.model_name
            sent == applied.out.sent
        IN  /\ applied.out.model_name = name
            /\ applied.in.variant = "llama" => sent = name
            /\ applied.in.variant \in {"openai", "anthropic", "google"} =>
                  IF \E k \in DOMAIN name : name[k] = "/"
                  THEN \E k \in DOMAIN name :
                          /\ name[k] = "/"
                          /\ \A j \in 1..(k - 1) : name[j] # "/"
                          /\ sent = SubSeq(name, k + 1, Len(name))
                  ELSE sent = name

C26_Witness ==
    /\ applied.fn = "_extract_model_name" /\ applied.done
    /\ applied.in.variant = "openai"
    /\ applied.in.model_name = <<"x", "/", "o", "p", "e", "n", "a", "i", "/">>
    /\ applied.out.sent = <<"o", "p", "e", "n", "a", "i", "/">>

(***************************************************************************)
(* Properties of the transcripts sent to the backend.                      *)
(***************************************************************************)
UserTurns(msgs) == {k \in DOMAIN msgs : msgs[k].role = "user"}

\* The question is the second entry (index 1) and the only user turn, or no
\* user turn is left.
C27_QuestionSecondOrGone ==
    \A c \in Invocations : (IsOpenAILike(c) /\ messages[c] # <<>>) =>
        \/ /\ UserTurns(messages[c]) = {2}
           /\ messages[c][2] = UserMsg(c, args[c].question)
        \/ UserTurns(messages[c]) = {}

C27_Step ==
    \A c \in Invocations : (IsOpenAILike(c) /\ messages[c] # <<>>) =>
        \* a tool turn is completed: the question goes exactly when the
        \* transcript has grown past 10 entries
        /\ (pc[c] = "in_tool" /\ pc'[c] = "loop") =>
              LET full == messages[c] \o ToolTurns(c, tool_results'[c])
              IN  IF Len(full) > 10
                  THEN UserTurns(messages'[c]) = {} /\ Len(messages'[c]) = 9
                  ELSE UserTurns(messages'[c]) = UserTurns(messages[c])
        \* the question never comes back
        /\ UserTurns(messages[c]) = {} => UserTurns(messages'[c]) = {}
        \* and it goes only by a trim to the system prompt and 8 entries
        /\ (UserTurns(messages[c]) # {} /\ UserTurns(messages'[c]) = {}) =>
              Len(messages'[c]) = 9 /\ messages'[c][1] = SystemMsg(c)

\* C27: in the OpenAI/Llama loop the question is at index 1 of the transcript
\* of every request before the first trim, and absent from the transcript of
\* every request after it: a trim keeps the system prompt and the last 8
\* entries and nothing re-inserts the question.
C27_QuestionDroppedByTrim == [](C27_QuestionSecondOrGone) /\ [][C27_Step]_vars

\* A request is sent after a trim, without the question.
C27_Witness ==
    /\ IsOpenAILike(1) /\ pc[1] = "request" /\ requests[1] >= 2
    /\ Len(messages[1]) = 9
    /\ UserTurns(messages[1]) = {}

IsAnthropic(c) == c \in active /\ VariantOf(c) = "anthropic"

CallIds(calls) == {calls[k].id : k \in DOMAIN calls}

\* Every tool_result block of msgs answers a tool_use block of the assistant
\* message right before the message it is in.
NoDanglingResult(msgs) ==
    \A k \in DOMAIN msgs : \A j \in DOMAIN msgs[k].results :
        /\ k > 1
        /\ msgs[k - 1].role = "assistant"
        /\ msgs[k].results[j].ref \in CallIds(msgs[k - 1].calls)

\* The list handed to the backend: at most 8 entries, no dangling
\* tool_result, and no system entry (the prompt goes in `system=`).
C28_AtRequest ==
    \A c \in Invocations : (IsAnthropic(c) /\ pc[c] = "request") =>
        LET msgs == messages[TranscriptOf(c)]
        IN  /\ Len(msgs) <= 8
            /\ NoDanglingResult(msgs)
            /\ \A k \in DOMAIN msgs : msgs[k].role # "system"

\* From one request to the next a tool turn has put two entries at the end of
\* the list, the assistant's response and one user message with all the tool
\* results of the turn, and the list was then cut to its last 8 entries.
C28_TurnStep ==
    \A c \in Invocations :
        (IsAnthropic(c) /\ pc[c] \in {"request", "tool", "in_tool"} /\ pc'[c] = "loop") =>
            LET t == TranscriptOf(c)
                before == IF pc[c] = "request" THEN messages[t]
                          ELSE SubSeq(messages[t], 1, Len(messages[t]) - 1)
                full == before \o <<AssistantMsg(c, response'[c]),
                                    ToolResultsMsg(c, tool_results'[c])>>
            IN  /\ Len(tool_results'[c]) = Len(response'[c].calls)
                /\ \A j \in DOMAIN tool_results'[c] :
                      tool_results'[c][j].ref = response'[c].calls[j].id
                /\ messages'[t] = IF Len(full) > 8
                                  THEN SubSeq(full, Len(full) - 7, Len(full))
                                  ELSE full

\* C28: in the Anthropic loop every tool turn appends exactly two messages, so
\* after the cut to the last 8 every tool_result block is in the message right
\* after the assistant message with its tool_use id; the list has at most 8
\* entries at each backend request and never holds the system prompt.
C28_AnthropicPairsSurviveTrim == [](C28_AtRequest) /\ [][C28_TurnStep]_vars

\* A request after the second cut: the list starts with an assistant message.
C28_Witness ==
    /\ IsAnthropic(1) /\ pc[1] = "request" /\ iteration[1] >= 6
    /\ Len(messages[TranscriptOf(1)]) = 8
    /\ messages[TranscriptOf(1)][1].role = "assistant"
    /\ messages[TranscriptOf(1)][2].results # <<>>

(***************************************************************************)
(* Properties of the tool calls whose arguments are no JSON.               *)
(***************************************************************************)
NotJson(call) == JsonLoads(call.arguments).raised

Occurrences(s, x) == Cardinality({k \in DOMAIN s : s[k] = x})

\* Every such call the for loop is through has one entry, made with the
\* empty mapping under the call's id, and was handed to the executor once.
C29_EntryOfNotJson ==
    \A c \in Invocations :
      (IsOpenAILike(c) /\ pc[c] \in {"tool", "in_tool", "loop", "request"}) =>
        \A j \in DOMAIN tool_results[c] :
            LET call == CurrentCalls(c)[j]
            IN  NotJson(call) =>
                    /\ tool_results[c][j].ref = call.id
                    /\ tool_results[c][j].args = EmptyMapping
                    /\ Occurrences(dispatched[c], call.id) = 1

C29_Step ==
    \A c \in Invocations :
        (IsOpenAILike(c) /\ pc[c] \in {"tool", "in_tool"} /\ NotJson(CurrentCall(c))) =>
            LET call == CurrentCall(c)
                t == TranscriptOf(c)
            IN  \* not an error: chat() goes on, unless the progress callback raised
                /\ pc'[c] = "done" => "callback" \in faults'[c]
                /\ pc'[c] # "done" => result'[c] = result[c]
                \* not skipped: the next step with the call hands it to the executor
                /\ (pc[c] = "tool" /\ pc'[c] # "done") =>
                        /\ pc'[c] = "in_tool"
                        /\ dispatched'[c] = Append(dispatched[c], call.id)
                        /\ tool_results'[c] = tool_results[c]
                \* and its result joins tool_results, and the transcript with the
                \* results of the turn
                /\ pc[c] = "in_tool" =>
                        /\ pc'[c] \in {"tool", "loop"}
                        /\ \E o \in {"ok", "raise"} :
                              tool_results'[c] = Append(tool_results[c],
                                  [owner |-> c, ref |-> call.id, name |-> call.name,
                                   args |-> EmptyMapping,
                                   content |-> RouteToolCall(call.name, o),
                                   raised |-> o = "raise"])
                        /\ pc'[c] = "loop" =>
                              \E k \in DOMAIN messages'[t] :
                                  /\ messages'[t][k].role = "tool"
                                  /\ messages'[t][k].ref = call.id
                                  /\ messages'[t][k].content =
                                        tool_results'[c][Len(tool_results'[c])].content

\* C29: in the OpenAI/Llama loop a tool call whose argument text is no valid
\* JSON is neither skipped nor an error: it is handed to the executor once,
\* with the empty mapping, and its result is appended as a tool turn under
\* the call's id.
C29_NotJsonDispatchedEmpty == [](C29_EntryOfNotJson) /\ [][C29_Step]_vars

\* A turn is complete whose last call had a text that is no JSON.
C29_Witness ==
    /\ IsOpenAILike(1) /\ pc[1] = "loop" /\ tool_results[1] # <<>>
    /\ Len(tool_results[1]) = Len(CurrentCalls(1))
    /\ NotJson(CurrentCalls(1)[Len(tool_results[1])])
    /\ tool_results[1][Len(tool_results[1])].args = EmptyMapping
    /\ messages[TranscriptOf(1)][Len(messages[TranscriptOf(1)])].ref
            = CurrentCalls(1)[Len(tool_results[1])].id

(***************************************************************************)
(* Properties of the Google loop.                                          *)
(***************************************************************************)
IsGoogle(c) == c \in active /\ VariantOf(c) = "google"

\* The function responses are those of the calls of the response before.
AnswersPrecedingResponse(c) ==
    /\ tool_results[c] # <<>>
    /\ Len(tool_results[c]) = Len(response[c].calls)
    /\ \A j \in DOMAIN tool_results[c] :
          /\ tool_results[c][j].ref = response[c].calls[j].id
          /\ tool_results[c][j].name = response[c].calls[j].name
          /\ tool_results[c][j].ref[1] = iteration[c] - 1

\* What send_message is about to carry after the first iteration.
C30_AtLaterRequest ==
    \A c \in Invocations :
        (IsGoogle(c) /\ pc[c] = "request" /\ iteration[c] > 1) =>
            AnswersPrecedingResponse(c)

\* The exit "No function responses to send but not first iteration" is never
\* taken: after the first iteration the step from "request" sends a request.
C30_NoEmptyExit ==
    \A c \in Invocations :
        /\ result[c].cause # "no_function_responses"
        /\ (IsGoogle(c) /\ pc[c] = "request" /\ iteration[c] > 1
                /\ pc'[c] # pc[c]) => requests'[c] = requests[c] + 1

\* C30: in the Google loop every backend request after the first carries a
\* non-empty list of function responses, one per function call of the response
\* right before, in its order and none from an earlier turn; the exit for an
\* empty list is unreachable.
C30_FunctionResponsesAnswerLastTurn ==
    [](C30_AtLaterRequest) /\ [][C30_NoEmptyExit]_vars

\* The third request is about to go out with the two responses of the second
\* response's calls.
C30_Witness ==
    /\ IsGoogle(1) /\ pc[1] = "request" /\ iteration[1] = 3
    /\ Len(response[1].calls) = 2
    /\ Refs(tool_results[1]) = << <<2, 1>>, <<2, 2>> >>

====
